---- MODULE Spec2Model ----
(***************************************************************************)
(* Conditioned control-flow graph queries of llvm-rust (llutil / inkwell). *)
(*                                                                         *)
(* The state is the program graph the queries read (the terminator of each *)
(* block and the use-list of each block taken as a value) together with    *)
(* the value returned by the last query.  The graph is drawn by Init from  *)
(* bounded sets; one action per query of BasicBlockExt applies it.         *)
(*                                                                         *)
(* Further specifications over the same variables cover the block list of  *)
(* a function (SpecLayout, SpecDetach), BinaryPredicate::negate            *)
(* (SpecPredicate), the matchers of the annotation lexer (SpecLexer), the  *)
(* whole lexer (SpecLexing), the annotation parser (SpecParser), the       *)
(* normalisation passes (SpecRename, SpecSimplify, SpecLoads), comparison  *)
(* instructions (SpecCmp), SwitchInst::get_case (SpecSwitch) and CodeFile  *)
(* (SpecFile).                                                             *)
(* A specification keeps the variables of the other parts at a fixed       *)
(* value.                                                                  *)
(***************************************************************************)
EXTENDS Naturals, Integers, Sequences, FiniteSets, TLC

VARIABLES term, uses, ret, func, pred, opnds, span,
          ir_module, cmp, tokens, elim, file

vars == <<term, uses, ret, func, pred, opnds, span,
          ir_module, cmp, tokens, elim, file>>

\* what the queries and operations on basic blocks leave alone
frame_cfg == <<pred, opnds, span, ir_module, cmp, tokens, elim, file>>
\* what BinaryPredicate::negate leaves alone
frame_predicate == <<term, uses, func, span, ir_module, cmp, tokens, elim, file>>
\* what the lexer leaves alone
frame_lexer ==
    <<term, uses, func, pred, opnds, ir_module, cmp, tokens, elim, file>>
\* what the passes over a module leave alone
frame_module == <<term, uses, func, pred, opnds, span, cmp, tokens, elim, file>>
\* what get_predicate leaves alone
frame_cmp ==
    <<term, uses, func, pred, opnds, span, ir_module, tokens, elim, file>>
\* what the annotation parser leaves alone
frame_parser ==
    <<term, uses, func, pred, opnds, span, ir_module, cmp, elim, file>>
\* what eliminate_unused_load leaves alone
frame_elim ==
    <<term, uses, func, pred, opnds, span, ir_module, cmp, tokens, file>>
\* what the constructors of CodeFile leave alone
frame_file ==
    <<term, uses, func, pred, opnds, span, ir_module, cmp, tokens, elim>>

(***************************************************************************)
(* Bounds                                                                  *)
(***************************************************************************)
\* number of basic blocks of the function
NumBlocks == 2
\* number of operand slots, over the whole function, that reference a block
\* (terminator operands and block-address constants)
MaxUses == 3
\* block operands and blockaddress uses of a graph whose blocks get detached
DetachUses == 2
\* width of the integers icmp compares
IntBits == 2
\* the floating-point numbers compared are -FloatRange..FloatRange and NaN
FloatRange == 1
\* number of pieces a lexer input is made of
MaxPieces == 3
\* runs of tokens of an input of the annotation parser
MaxTokenRuns == 7
\* instructions of a function that eliminate_unused_load runs on
MaxLoadInsts == 3
\* instructions of a function of a module that is simplified
MaxSimplifyInsts == 1
\* number of files of a chain of derive_from_file calls
MaxChain == 3
\* globals of a module
MaxGlobals == 1
\* functions of a module
MaxFunctions == 2
\* parameters of a function
MaxParams == 1
\* basic blocks of a function of a module
MaxFnBlocks == 1
\* instructions of a basic block of a module
MaxInsts == 2
\* number of cases of a switch, the default excluded
MaxCases == 2
\* number of destinations of an indirectbr
MaxDests == 2
\* number of distinct condition / address values
NumVals == 1
\* number of distinct case constants
NumCaseVals == 2

Blocks == 1..NumBlocks
Vals == 1..NumVals
CaseVals == 1..NumCaseVals

\* Option::None of a block handle (BasicBlock::new of a null pointer)
NoBlock == 0
\* absent condition value of an unconditional br
NoVal == 0
\* Option::None of a case value
NoCase == 0
\* use-list entry whose user is not an instruction (a blockaddress constant)
ConstUser == 0

(***************************************************************************)
(* Instructions.  A terminator is a record                                 *)
(*   kind  : the opcode                                                    *)
(*   cond  : the condition (br, switch) or address (indirectbr) operand    *)
(*   succs : the block operands, in LLVMGetSuccessor order                 *)
(*   cases : the case constants of a switch, in declaration order          *)
(* NoTerm is the result of get_terminator on a block whose last            *)
(* instruction is not a terminator.                                        *)
(***************************************************************************)
Inst(k, c, s, v) == [kind |-> k, cond |-> c, succs |-> s, cases |-> v]

NoTerm == Inst("NoTerm", NoVal, <<>>, <<>>)

\* sequences over S of length exactly n
RECURSIVE SeqsOfLen(_, _)
SeqsOfLen(S, n) ==
    IF n = 0 THEN {<<>>}
    ELSE {Append(s, x) : s \in SeqsOfLen(S, n - 1), x \in S}

SeqsUpTo(S, n) == UNION {SeqsOfLen(S, k) : k \in 0..n}

\* case constants of one switch are pairwise distinct
DistinctSeq(s) == \A i, j \in 1..Len(s) : i # j => s[i] # s[j]

CaseSeqs == {s \in SeqsUpTo(CaseVals, MaxCases) : DistinctSeq(s)}

TermSet ==
    {NoTerm, Inst("Return", NoVal, <<>>, <<>>),
     Inst("Unreachable", NoVal, <<>>, <<>>)}
    \cup {Inst("Invoke", NoVal, s, <<>>) : s \in SeqsOfLen(Blocks, 2)}
    \cup {Inst("CallBr", NoVal, s, <<>>) : s \in SeqsOfLen(Blocks, 1)}
    \cup {Inst("Br", NoVal, s, <<>>) : s \in SeqsOfLen(Blocks, 1)}
    \cup {Inst("Br", c, s, <<>>) : c \in Vals, s \in SeqsOfLen(Blocks, 2)}
    \cup UNION {{Inst("Switch", c, s, v) : c \in Vals,
                                            s \in SeqsOfLen(Blocks, Len(v) + 1)}
                : v \in CaseSeqs}
    \cup {Inst("IndirectBr", c, s, <<>>) : c \in Vals,
                                           s \in SeqsUpTo(Blocks, MaxDests)}

\* number of block operands of an instruction
NumBlockOperands(t) == Len(t.succs)

\* assignments of a terminator to the blocks 1..n with at most budget block
\* operands in total
RECURSIVE TermSeqs(_, _)
TermSeqs(n, budget) ==
    IF n = 0 THEN {<<>>}
    ELSE UNION {{Append(s, t) : s \in TermSeqs(n - 1, budget - NumBlockOperands(t))}
                : t \in {u \in TermSet : NumBlockOperands(u) <= budget}}

RECURSIVE SumSeq(_)
SumSeq(s) == IF s = <<>> THEN 0 ELSE Head(s) + SumSeq(Tail(s))

TotalBlockOperands(tm) == SumSeq([a \in 1..Len(tm) |-> NumBlockOperands(tm[a])])

\* number of operands of the terminator of block a that reference block b
RECURSIVE CountIn(_, _)
CountIn(s, b) ==
    IF s = <<>> THEN 0
    ELSE (IF Head(s) = b THEN 1 ELSE 0) + CountIn(Tail(s), b)

\* n copies of x
Repeat(x, n) == [i \in 1..n |-> x]

\* the users of block b: one entry per operand slot that references b
RECURSIVE InstUsers(_, _, _)
InstUsers(tm, b, a) ==
    IF a = 0 THEN <<>>
    ELSE InstUsers(tm, b, a - 1) \o Repeat(a, CountIn(tm[a].succs, b))

\* every order in which the use-list of a value can enumerate its users
Orders(s) ==
    {[i \in 1..Len(s) |-> s[p[i]]] : p \in Permutations(1..Len(s))}

\* use-lists of the blocks 1..n consistent with the terminators tm and with
\* nc[b] block-address constants of block b
RECURSIVE UseLists(_, _, _)
UseLists(tm, nc, n) ==
    IF n = 0 THEN {<<>>}
    ELSE {Append(u, o) : u \in UseLists(tm, nc, n - 1),
                         o \in Orders(InstUsers(tm, n, NumBlocks)
                                      \o Repeat(ConstUser, nc[n]))}

\* a use-list is consistent with the terminators: block a's terminator is a
\* user of b once per operand of it that references b
UsesConsistent ==
    \A b \in Blocks : \A a \in Blocks :
        CountIn(uses[b], a) = CountIn(term[a].succs, b)

(***************************************************************************)
(* The LLVM C API the wrappers call                                        *)
(***************************************************************************)
LLVMGetBasicBlockTerminator(b) == term[b]

LLVMGetNumSuccessors(t) == Len(t.succs)

LLVMGetSuccessor(t, i) == IF i < Len(t.succs) THEN t.succs[i + 1] ELSE NoBlock

LLVMIsConditional(t) == t.kind = "Br" /\ t.cond # NoVal

LLVMGetCondition(t) == t.cond

LLVMGetSwitchCondition(t) == t.cond

LLVMGetSwitchNumCases(t) == Len(t.cases)

\* what LLVMGetSwitchCase reads at an index that is not one of a case
BeyondCases == -1

LLVMGetSwitchCase(t, i) ==
    IF i < Len(t.cases) THEN t.cases[i + 1] ELSE BeyondCases

LLVMGetSwitchSuccessor(t, i) ==
    IF i + 1 < Len(t.succs) THEN t.succs[i + 2] ELSE NoBlock

LLVMGetSwitchDefaultDest(t) == IF Len(t.succs) > 0 THEN t.succs[1] ELSE NoBlock

(***************************************************************************)
(* Path conditions and edge descriptors                                    *)
(***************************************************************************)
PathCondition_None == [tag |-> "None", value |-> NoVal, arg |-> 0]

PathCondition_Boolean(v, b) ==
    [tag |-> "Boolean", value |-> v, arg |-> IF b THEN 1 ELSE 0]

PathCondition_Value(v, c) == [tag |-> "Value", value |-> v, arg |-> c]

SuccessorBlock(cond, blk) == [condition |-> cond, block |-> blk]

PredecessorBlock(cond, blk) == [condition |-> cond, block |-> blk]

(***************************************************************************)
(* AnyTerminator / AnyCondition                                            *)
(***************************************************************************)
AnyTerminator_get_num_successors(t) == LLVMGetNumSuccessors(t)

AnyTerminator_get_successor(t, index) == LLVMGetSuccessor(t, index)

\* for i in 0..num_succs: push the successor when it is Some
AnyTerminator_get_successors(t) ==
    SelectSeq([i \in 1..AnyTerminator_get_num_successors(t) |->
                   AnyTerminator_get_successor(t, i - 1)],
              LAMBDA blk : blk # NoBlock)

AnyCondition_has_condition(t) == LLVMIsConditional(t)

AnyCondition_get_condition(t) == LLVMGetCondition(t)

(***************************************************************************)
(* BranchInst                                                              *)
(***************************************************************************)
BranchInst_get_first_successor(t) == AnyTerminator_get_successor(t, 0)

BranchInst_get_second_successor(t) == AnyTerminator_get_successor(t, 1)

\* variant of BranchInst_get_conditioned_successors that pairs the true edge
\* with the second successor and the false edge with the first
BranchInst_get_conditioned_successors_swapped(t) ==
    IF AnyCondition_has_condition(t)
    THEN LET condition == AnyCondition_get_condition(t)
             sblk1 == SuccessorBlock(PathCondition_Boolean(condition, TRUE),
                                     BranchInst_get_second_successor(t))
             sblk2 == SuccessorBlock(PathCondition_Boolean(condition, FALSE),
                                     BranchInst_get_first_successor(t))
         IN  <<sblk1, sblk2>>
    ELSE <<SuccessorBlock(PathCondition_None,
                          AnyTerminator_get_successor(t, 0))>>

\* variant of BranchInst_get_conditioned_successors that never pushes the
\* false edge
BranchInst_get_conditioned_successors_true_only(t) ==
    IF AnyCondition_has_condition(t)
    THEN <<SuccessorBlock(PathCondition_Boolean(AnyCondition_get_condition(t),
                                                TRUE),
                          BranchInst_get_first_successor(t))>>
    ELSE <<SuccessorBlock(PathCondition_None,
                          AnyTerminator_get_successor(t, 0))>>

BranchInst_get_conditioned_successors(t) ==
    IF AnyCondition_has_condition(t)
    THEN LET condition == AnyCondition_get_condition(t)
             sblk1 == SuccessorBlock(PathCondition_Boolean(condition, TRUE),
                                     BranchInst_get_first_successor(t))
             sblk2 == SuccessorBlock(PathCondition_Boolean(condition, FALSE),
                                     BranchInst_get_second_successor(t))
         IN  <<sblk1, sblk2>>
    ELSE <<SuccessorBlock(PathCondition_None,
                          AnyTerminator_get_successor(t, 0))>>

(***************************************************************************)
(* IndirectBrInst                                                          *)
(***************************************************************************)
\* variant of IndirectBrInst_get_conditioned_successors that lists the
\* destinations last to first
IndirectBrInst_get_conditioned_successors_reversed(t) ==
    LET blks == AnyTerminator_get_successors(t)
    IN  [i \in 1..Len(blks) |->
            SuccessorBlock(PathCondition_None, blks[Len(blks) + 1 - i])]

IndirectBrInst_get_conditioned_successors(t) ==
    LET blks == AnyTerminator_get_successors(t)
    IN  [i \in 1..Len(blks) |-> SuccessorBlock(PathCondition_None, blks[i])]

(***************************************************************************)
(* SwitchInst                                                              *)
(***************************************************************************)
SwitchInst_get_condition(t) == LLVMGetSwitchCondition(t)

SwitchInst_get_num_cases(t) == LLVMGetSwitchNumCases(t)

\* variant of SwitchInst_get_case that gives None for the last case
SwitchInst_get_case_strict(t, index) ==
    IF index + 1 >= SwitchInst_get_num_cases(t) THEN NoCase
    ELSE LLVMGetSwitchCase(t, index)

SwitchInst_get_case(t, index) ==
    IF index > SwitchInst_get_num_cases(t) THEN NoCase
    ELSE LLVMGetSwitchCase(t, index)

\* variant of SwitchInst_get_successor that reads the raw successor list,
\* whose entry 0 is the default destination
SwitchInst_get_successor_raw(t, index) == LLVMGetSuccessor(t, index)

SwitchInst_get_successor(t, index) == LLVMGetSwitchSuccessor(t, index)

SwitchInst_get_default_successor(t) == LLVMGetSwitchDefaultDest(t)

\* variant of SwitchInst_get_conditioned_successors whose loop stops one
\* case early
SwitchInst_get_conditioned_successors_short(t) ==
    LET default_sblk == SuccessorBlock(PathCondition_None,
                                       SwitchInst_get_default_successor(t))
        cond == SwitchInst_get_condition(t)
        n == SwitchInst_get_num_cases(t)
    IN  <<default_sblk>> \o
        [i \in 1..(IF n > 0 THEN n - 1 ELSE 0) |->
            SuccessorBlock(PathCondition_Value(cond, SwitchInst_get_case(t, i - 1)),
                           SwitchInst_get_successor(t, i - 1))]

\* the default edge first, then for i in 0..num_cases the edge of case i
\* when both its value and its successor are Some
SwitchInst_get_conditioned_successors(t) ==
    LET default_sblk == SuccessorBlock(PathCondition_None,
                                       SwitchInst_get_default_successor(t))
        cond == SwitchInst_get_condition(t)
        read == [i \in 1..SwitchInst_get_num_cases(t) |->
                    <<SwitchInst_get_case(t, i - 1),
                      SwitchInst_get_successor(t, i - 1)>>]
        some == SelectSeq(read, LAMBDA p : p[1] # NoCase /\ p[2] # NoBlock)
    IN  <<default_sblk>> \o
        [i \in 1..Len(some) |->
            SuccessorBlock(PathCondition_Value(cond, some[i][1]), some[i][2])]

(***************************************************************************)
(* TerminatorInst                                                          *)
(***************************************************************************)
is_a_terminator_inst(t) == t.kind # "NoTerm"

TerminatorInst_as_branch_inst(t) == t.kind = "Br"

TerminatorInst_as_indirectbr_inst(t) == t.kind = "IndirectBr"

TerminatorInst_as_switch_inst(t) == t.kind = "Switch"

\* variant of TerminatorInst_get_conditioned_successors that gives the raw
\* successors of the other terminator kinds as unconditional edges
TerminatorInst_get_conditioned_successors_raw_fallback(t) ==
    IF TerminatorInst_as_branch_inst(t)
    THEN BranchInst_get_conditioned_successors(t)
    ELSE IF TerminatorInst_as_indirectbr_inst(t)
    THEN IndirectBrInst_get_conditioned_successors(t)
    ELSE IF TerminatorInst_as_switch_inst(t)
    THEN SwitchInst_get_conditioned_successors(t)
    ELSE LET blks == AnyTerminator_get_successors(t)
         IN  [i \in 1..Len(blks) |->
                 SuccessorBlock(PathCondition_None, blks[i])]

TerminatorInst_get_conditioned_successors(t) ==
    IF TerminatorInst_as_branch_inst(t)
    THEN BranchInst_get_conditioned_successors(t)
    ELSE IF TerminatorInst_as_indirectbr_inst(t)
    THEN IndirectBrInst_get_conditioned_successors(t)
    ELSE IF TerminatorInst_as_switch_inst(t)
    THEN SwitchInst_get_conditioned_successors(t)
    ELSE <<>>

(***************************************************************************)
(* BasicBlockExt                                                           *)
(***************************************************************************)
BasicBlock_get_terminator(b) == LLVMGetBasicBlockTerminator(b)

\* the use-list of b, from get_first_use along get_next_use
BasicBlock_get_uses(b) == uses[b]

is_instruction_value(user) == user # ConstUser

\* an instruction is named by the block that holds it
InstructionValue_get_parent(inst) == inst

BasicBlock_get_successors(b) ==
    LET inst == BasicBlock_get_terminator(b)
    IN  IF is_a_terminator_inst(inst)
        THEN AnyTerminator_get_successors(inst)
        ELSE <<>>

BasicBlock_get_conditioned_successors(b) ==
    LET inst == BasicBlock_get_terminator(b)
    IN  IF is_a_terminator_inst(inst)
        THEN TerminatorInst_get_conditioned_successors(inst)
        ELSE <<>>

\* variant of get_predecessors_walk that pushes a block only when it is not
\* in the list yet
RECURSIVE get_predecessors_walk_dedup(_)
get_predecessors_walk_dedup(use_) ==
    IF use_ = <<>> THEN <<>>
    ELSE LET user == Head(use_)
             rest == get_predecessors_walk_dedup(Tail(use_))
         IN  IF is_instruction_value(user)
                /\ InstructionValue_get_parent(user) # NoBlock
             THEN <<InstructionValue_get_parent(user)>>
                  \o SelectSeq(rest,
                        LAMBDA blk : blk # InstructionValue_get_parent(user))
             ELSE rest

\* one step of the walk of get_predecessors over the use-list
RECURSIVE get_predecessors_walk(_)
get_predecessors_walk(use_) ==
    IF use_ = <<>> THEN <<>>
    ELSE LET user == Head(use_)
         IN  (IF is_instruction_value(user)
                 /\ InstructionValue_get_parent(user) # NoBlock
              THEN <<InstructionValue_get_parent(user)>>
              ELSE <<>>)
             \o get_predecessors_walk(Tail(use_))

BasicBlock_get_predecessors(b) == get_predecessors_walk(BasicBlock_get_uses(b))

\* variant of conditioned_predecessors_of_use that leaves the inner loop at
\* the first successor edge that matches
conditioned_predecessors_of_use_first_hit(self, user) ==
    IF is_instruction_value(user) /\ is_a_terminator_inst(term[user])
    THEN LET sblks == TerminatorInst_get_conditioned_successors(term[user])
             hits == SelectSeq(sblks, LAMBDA sblk : sblk.block = self)
         IN  IF hits = <<>> THEN <<>>
             ELSE <<PredecessorBlock(hits[1].condition,
                                     InstructionValue_get_parent(user))>>
    ELSE <<>>

\* the entries one use contributes to get_conditioned_predecessors(self)
conditioned_predecessors_of_use(self, user) ==
    IF is_instruction_value(user) /\ is_a_terminator_inst(term[user])
    THEN LET sblks == TerminatorInst_get_conditioned_successors(term[user])
             hits == SelectSeq(sblks, LAMBDA sblk : sblk.block = self)
         IN  [i \in 1..Len(hits) |->
                 PredecessorBlock(hits[i].condition,
                                  InstructionValue_get_parent(user))]
    ELSE <<>>

\* variant of get_conditioned_predecessors_walk that inserts at the front
RECURSIVE get_conditioned_predecessors_walk_front(_, _)
get_conditioned_predecessors_walk_front(self, self_use) ==
    IF self_use = <<>> THEN <<>>
    ELSE get_conditioned_predecessors_walk_front(self, Tail(self_use))
         \o conditioned_predecessors_of_use(self, Head(self_use))

RECURSIVE get_conditioned_predecessors_walk(_, _)
get_conditioned_predecessors_walk(self, self_use) ==
    IF self_use = <<>> THEN <<>>
    ELSE conditioned_predecessors_of_use(self, Head(self_use))
         \o get_conditioned_predecessors_walk(self, Tail(self_use))

BasicBlock_get_conditioned_predecessors(b) ==
    get_conditioned_predecessors_walk(b, BasicBlock_get_uses(b))

(***************************************************************************)
(* Panics: for each operation that can panic, the condition under which it *)
(* does (an unwrap of None, an explicit panic!).                           *)
(***************************************************************************)
\* panic!("Expect conditional instruction") unless has_condition()
AnyCondition_get_condition_panics(t) == ~AnyCondition_has_condition(t)

\* self.get_successor(0).unwrap()
BranchInst_get_first_successor_panics(t) ==
    AnyTerminator_get_successor(t, 0) = NoBlock

\* variant of BranchInst_get_conditioned_successors_panics that reads the
\* condition before it asks has_condition
BranchInst_get_conditioned_successors_panics_eager(t) ==
    \/ AnyCondition_get_condition_panics(t)
    \/ IF AnyCondition_has_condition(t)
       THEN \/ BranchInst_get_first_successor_panics(t)
            \/ BranchInst_get_second_successor(t) = NoBlock
       ELSE AnyTerminator_get_successor(t, 0) = NoBlock

BranchInst_get_conditioned_successors_panics(t) ==
    IF AnyCondition_has_condition(t)
    THEN \/ AnyCondition_get_condition_panics(t)
         \/ BranchInst_get_first_successor_panics(t)
         \/ BranchInst_get_second_successor(t) = NoBlock
    ELSE AnyTerminator_get_successor(t, 0) = NoBlock

\* panic!("Invalid Switch instruction: default successor not found")
SwitchInst_get_default_successor_panics(t) ==
    LLVMGetSwitchDefaultDest(t) = NoBlock

SwitchInst_get_conditioned_successors_panics(t) ==
    SwitchInst_get_default_successor_panics(t)

TerminatorInst_get_conditioned_successors_panics(t) ==
    IF TerminatorInst_as_branch_inst(t)
    THEN BranchInst_get_conditioned_successors_panics(t)
    ELSE IF TerminatorInst_as_indirectbr_inst(t)
    THEN FALSE
    ELSE IF TerminatorInst_as_switch_inst(t)
    THEN SwitchInst_get_conditioned_successors_panics(t)
    ELSE FALSE

BasicBlock_get_conditioned_successors_panics(b) ==
    LET inst == BasicBlock_get_terminator(b)
    IN  /\ is_a_terminator_inst(inst)
        /\ TerminatorInst_get_conditioned_successors_panics(inst)

\* a use panics when the edges of its terminator cannot be derived, or when
\* an edge hits and inst.get_parent().unwrap() finds no parent
conditioned_predecessors_of_use_panics(self, user) ==
    /\ is_instruction_value(user)
    /\ is_a_terminator_inst(term[user])
    /\ \/ TerminatorInst_get_conditioned_successors_panics(term[user])
       \/ /\ \E i \in 1..Len(TerminatorInst_get_conditioned_successors(term[user])) :
                TerminatorInst_get_conditioned_successors(term[user])[i].block = self
          /\ InstructionValue_get_parent(user) = NoBlock

BasicBlock_get_conditioned_predecessors_panics(b) ==
    \E i \in 1..Len(BasicBlock_get_uses(b)) :
        conditioned_predecessors_of_use_panics(b, BasicBlock_get_uses(b)[i])

(***************************************************************************)
(* The function's block list.  func.list holds the blocks of the function  *)
(* in layout order; a block that is not in it has no parent.  func.deleted *)
(* holds the blocks LLVMDeleteBasicBlock has freed: the safety contract of *)
(* the unsafe fn delete forbids any later use of such a handle, so no      *)
(* action takes one.                                                       *)
(***************************************************************************)
AllAttached == [list |-> [i \in 1..NumBlocks |-> i], deleted |-> {}]

\* position of b in the list, 0 when it is not there
IndexIn(list, b) ==
    IF \E i \in 1..Len(list) : list[i] = b
    THEN CHOOSE i \in 1..Len(list) : list[i] = b
    ELSE 0

\* the list with b inserted so that it ends at position i
InsertAt(list, i, b) ==
    [k \in 1..(Len(list) + 1) |->
        IF k < i THEN list[k] ELSE IF k = i THEN b ELSE list[k - 1]]

\* TRUE for Some(function), FALSE for None
LLVMGetBasicBlockParent(b) == IndexIn(func.list, b) # 0

LLVMGetPreviousBasicBlock(b) ==
    LET i == IndexIn(func.list, b)
    IN  IF i > 1 THEN func.list[i - 1] ELSE NoBlock

LLVMGetNextBasicBlock(b) ==
    LET i == IndexIn(func.list, b)
    IN  IF i > 0 /\ i < Len(func.list) THEN func.list[i + 1] ELSE NoBlock

LLVMRemoveBasicBlockFromParent(list, b) ==
    SelectSeq(list, LAMBDA x : x # b)

\* splice b in front of pos; moving a block before itself changes nothing
LLVMMoveBasicBlockBefore(list, b, pos) ==
    IF b = pos THEN list
    ELSE LET without == LLVMRemoveBasicBlockFromParent(list, b)
         IN  InsertAt(without, IndexIn(without, pos), b)

\* splice b behind pos; moving a block after itself changes nothing
LLVMMoveBasicBlockAfter(list, b, pos) ==
    IF b = pos THEN list
    ELSE LET without == LLVMRemoveBasicBlockFromParent(list, b)
         IN  InsertAt(without, IndexIn(without, pos) + 1, b)

BasicBlock_get_parent(self) == LLVMGetBasicBlockParent(self)

\* an Option<BasicBlock> as a sequence of at most one block
OptionOf(b) == IF b = NoBlock THEN <<>> ELSE <<b>>

BasicBlock_get_previous_basic_block(self) ==
    IF ~BasicBlock_get_parent(self) THEN <<>>
    ELSE OptionOf(LLVMGetPreviousBasicBlock(self))

BasicBlock_get_next_basic_block(self) ==
    IF ~BasicBlock_get_parent(self) THEN <<>>
    ELSE OptionOf(LLVMGetNextBasicBlock(self))

\* the outcome of an operation on the block list: its Result and the list
\* it leaves
Outcome(result, f) == [result |-> result, func |-> f]

\* variant of BasicBlock_move_before that asks for the parent of self only;
\* the block then goes where LLVM assumes the other block's list to be
BasicBlock_move_before_self_only(self, basic_block) ==
    IF ~BasicBlock_get_parent(self)
    THEN Outcome("Err", func)
    ELSE Outcome("Ok",
                 [func EXCEPT !.list =
                     IF BasicBlock_get_parent(basic_block)
                     THEN LLVMMoveBasicBlockBefore(func.list, self, basic_block)
                     ELSE LLVMRemoveBasicBlockFromParent(func.list, self)])

BasicBlock_move_before(self, basic_block) ==
    IF ~BasicBlock_get_parent(self) \/ ~BasicBlock_get_parent(basic_block)
    THEN Outcome("Err", func)
    ELSE Outcome("Ok",
                 [func EXCEPT !.list =
                     LLVMMoveBasicBlockBefore(func.list, self, basic_block)])

BasicBlock_move_after(self, basic_block) ==
    IF ~BasicBlock_get_parent(self) \/ ~BasicBlock_get_parent(basic_block)
    THEN Outcome("Err", func)
    ELSE Outcome("Ok",
                 [func EXCEPT !.list =
                     LLVMMoveBasicBlockAfter(func.list, self, basic_block)])

BasicBlock_remove_from_function(self) ==
    IF ~BasicBlock_get_parent(self)
    THEN Outcome("Err", func)
    ELSE Outcome("Ok",
                 [func EXCEPT !.list =
                     LLVMRemoveBasicBlockFromParent(func.list, self)])

\* LLVMDeleteBasicBlock unlinks the block and frees it
BasicBlock_delete(self) ==
    IF ~BasicBlock_get_parent(self)
    THEN Outcome("Err", func)
    ELSE Outcome("Ok",
                 [list |-> LLVMRemoveBasicBlockFromParent(func.list, self),
                  deleted |-> func.deleted \cup {self}])

(***************************************************************************)
(* BinaryPredicate                                                         *)
(***************************************************************************)
IntPred(op) == [family |-> "IntPred", p |-> op]

FloatPred(op) == [family |-> "FloatPred", p |-> op]

IntPredicates ==
    {"EQ", "NE", "UGT", "UGE", "ULT", "ULE", "SGT", "SGE", "SLT", "SLE"}

FloatPredicates ==
    {"OEQ", "OGE", "OGT", "OLE", "OLT", "ONE", "ORD", "PredicateFalse",
     "PredicateTrue", "UEQ", "UGE", "UGT", "ULE", "ULT", "UNE", "UNO"}

BinaryPredicates ==
    {IntPred(p) : p \in IntPredicates} \cup {FloatPred(p) : p \in FloatPredicates}

\* the inner match of negate on an IntPredicate
IntPredicate_negation ==
    [EQ |-> "NE", NE |-> "EQ",
     UGT |-> "ULE", UGE |-> "ULT", ULT |-> "UGE", ULE |-> "UGT",
     SGT |-> "SLE", SGE |-> "SLT", SLT |-> "SGE", SLE |-> "SGT"]

\* the inner match of negate on a FloatPredicate
FloatPredicate_negation ==
    [OEQ |-> "UNE", OGE |-> "ULT", OGT |-> "ULE", OLE |-> "UGT",
     OLT |-> "UGE", ONE |-> "UEQ", ORD |-> "UNO",
     PredicateFalse |-> "PredicateTrue", PredicateTrue |-> "PredicateFalse",
     UEQ |-> "ONE", UGE |-> "OLT", UGT |-> "OLE", ULE |-> "OGT",
     ULT |-> "OGE", UNE |-> "OEQ", UNO |-> "ORD"]

\* variant of negate that pairs UGE with ULE
negate_mispaired(self) ==
    IF self.family = "IntPred"
    THEN IntPred([IntPredicate_negation EXCEPT !.UGE = "ULE"][self.p])
    ELSE FloatPred(FloatPredicate_negation[self.p])

\* variant of negate that keeps an ordered predicate ordered
negate_keeps_ordered(self) ==
    IF self.family = "IntPred"
    THEN IntPred(IntPredicate_negation[self.p])
    ELSE FloatPred([FloatPredicate_negation EXCEPT !.OGT = "OLE",
                                                   !.OLE = "OGT"][self.p])

\* variant of negate that changes the signedness of SGT and ULE
negate_crosses_signedness(self) ==
    IF self.family = "IntPred"
    THEN IntPred([IntPredicate_negation EXCEPT !.SGT = "ULE",
                                                 !.ULE = "SGT"][self.p])
    ELSE FloatPred(FloatPredicate_negation[self.p])

negate(self) ==
    IF self.family = "IntPred"
    THEN IntPred(IntPredicate_negation[self.p])
    ELSE FloatPred(FloatPredicate_negation[self.p])

(***************************************************************************)
(* What a predicate says of two operands: icmp on integers of IntBits      *)
(* bits, fcmp on floating-point values that are a number or NaN.           *)
(***************************************************************************)
IntVals == 0..(2^IntBits - 1)

\* the value of the bit pattern x read as a two's complement number
ToSigned(x) == IF x >= 2^(IntBits - 1) THEN x - 2^IntBits ELSE x

NaN == [nan |-> TRUE, num |-> 0]

Num(n) == [nan |-> FALSE, num |-> n]

FloatVals == {NaN} \cup {Num(n) : n \in (0 - FloatRange)..FloatRange}

icmp(op, a, b) ==
    CASE op = "EQ"  -> a = b
      [] op = "NE"  -> a # b
      [] op = "UGT" -> a > b
      [] op = "UGE" -> a >= b
      [] op = "ULT" -> a < b
      [] op = "ULE" -> a <= b
      [] op = "SGT" -> ToSigned(a) > ToSigned(b)
      [] op = "SGE" -> ToSigned(a) >= ToSigned(b)
      [] op = "SLT" -> ToSigned(a) < ToSigned(b)
      [] op = "SLE" -> ToSigned(a) <= ToSigned(b)

fcmp(op, a, b) ==
    LET uno == a.nan \/ b.nan
        x == a.num
        y == b.num
    IN  CASE op = "PredicateFalse" -> FALSE
          [] op = "PredicateTrue"  -> TRUE
          [] op = "ORD" -> ~uno
          [] op = "UNO" -> uno
          [] op = "OEQ" -> ~uno /\ x = y
          [] op = "OGT" -> ~uno /\ x > y
          [] op = "OGE" -> ~uno /\ x >= y
          [] op = "OLT" -> ~uno /\ x < y
          [] op = "OLE" -> ~uno /\ x <= y
          [] op = "ONE" -> ~uno /\ x # y
          [] op = "UEQ" -> uno \/ x = y
          [] op = "UGT" -> uno \/ x > y
          [] op = "UGE" -> uno \/ x >= y
          [] op = "ULT" -> uno \/ x < y
          [] op = "ULE" -> uno \/ x <= y
          [] op = "UNE" -> uno \/ x # y

\* the predicate p holds of the operands a and b
Holds(p, a, b) ==
    IF p.family = "IntPred" THEN icmp(p.p, a, b) ELSE fcmp(p.p, a, b)

(***************************************************************************)
(* The lexer of bug annotations.  A string is a sequence of characters, a  *)
(* character a string of length one.  A nom parser is modelled by the      *)
(* length of the prefix it consumes, 0 when it fails; many0 succeeds with  *)
(* the length 0.                                                           *)
(***************************************************************************)
Lower ==
    {"a", "b", "c", "d", "e", "f", "g", "h", "i", "j", "k", "l", "m", "n",
     "o", "p", "q", "r", "s", "t", "u", "v", "w", "x", "y", "z"}

Upper ==
    {"A", "B", "C", "D", "E", "F", "G", "H", "I", "J", "K", "L", "M", "N",
     "O", "P", "Q", "R", "S", "T", "U", "V", "W", "X", "Y", "Z"}

Alpha == Lower \cup Upper

DigitChars == <<"0", "1", "2", "3", "4", "5", "6", "7", "8", "9">>

Digit == {DigitChars[i] : i \in 1..Len(DigitChars)}

DigitValue(c) == (CHOOSE i \in 1..Len(DigitChars) : DigitChars[i] = c) - 1

\* the grave accent, a character that cannot be written in a string here
Grave == "grave"

\* the characters of the string escaped of escaped_char
Escaped ==
    {"#", "<", ">", "%", ".", "(", ")", "{", "}", ",", "*", "=", ";", "\"",
     "&", ":", "/", "@", "[", "]", "-", "^", "+", Grave, "\\", "!"}

I32Max == 2147483647

Take(s, n) == SubSeq(s, 1, n)

Drop(s, n) == SubSeq(s, n + 1, Len(s))

StartsWith(s, t) == Len(s) >= Len(t) /\ SubSeq(s, 1, Len(t)) = t

\* number of leading characters of s that are in class
RECURSIVE RunLen(_, _)
RunLen(s, class) ==
    IF s = <<>> \/ Head(s) \notin class THEN 0
    ELSE 1 + RunLen(Tail(s), class)

tag(t, s) == IF StartsWith(s, t) THEN Len(t) ELSE 0

alpha1(s) == RunLen(s, Alpha)

alphanumeric1(s) == RunLen(s, Alpha \cup Digit)

\* many1(terminated(one_of(class), many0(char('_'))))
RECURSIVE many1_terminated(_, _)
many1_terminated(s, class) ==
    IF s = <<>> \/ Head(s) \notin class THEN 0
    ELSE LET n == 1 + RunLen(Tail(s), {"_"})
         IN  n + many1_terminated(Drop(s, n), class)

\* the tokens
NoToken == [kind |-> "none", text |-> <<>>, num |-> 0]

Token_IDENT(m) == [kind |-> "IDENT", text |-> m, num |-> 0]

Token_EscapedChar(m) == [kind |-> "EscapedChar", text |-> m, num |-> 0]

Token_Number(n) == [kind |-> "Number", text |-> <<>>, num |-> n]

Token_Plain(kind) == [kind |-> kind, text |-> <<>>, num |-> 0]

\* IResult: Ok((rest, token)) or Err
Ok(rest, token) == [status |-> "Ok", rest |-> rest, token |-> token]

Err == [status |-> "Err", rest |-> <<>>, token |-> NoToken]

\* alt((alpha1, tag("_")))
identifier_head(s) ==
    IF alpha1(s) > 0 THEN alpha1(s) ELSE tag(<<"_">>, s)

\* variant of identifier_tail that takes letters and digits only
RECURSIVE identifier_tail_alnum(_)
identifier_tail_alnum(s) ==
    LET n == alphanumeric1(s)
    IN  IF n = 0 THEN 0 ELSE n + identifier_tail_alnum(Drop(s, n))

\* many0(alt((alphanumeric1, tag("_"))))
RECURSIVE identifier_tail(_)
identifier_tail(s) ==
    LET n == IF alphanumeric1(s) > 0 THEN alphanumeric1(s)
             ELSE tag(<<"_">>, s)
    IN  IF n = 0 THEN 0 ELSE n + identifier_tail(Drop(s, n))

identifier(input) ==
    LET h == identifier_head(input)
        n == h + identifier_tail(Drop(input, h))
    IN  IF h = 0 THEN Err
        ELSE Ok(Drop(input, n), Token_IDENT(Take(input, n)))

escaped_char(input) ==
    LET n == many1_terminated(input, Escaped)
    IN  IF n = 0 THEN Err
        ELSE Ok(Drop(input, n), Token_EscapedChar(Take(input, n)))

\* str::parse::<i32> on a text that does not start with a sign: every
\* character has to be a digit and the value has to fit in an i32
RECURSIVE parse_i32_from(_, _)
parse_i32_from(text, acc) ==
    IF text = <<>> THEN [ok |-> TRUE, value |-> acc]
    ELSE IF Head(text) \notin Digit THEN [ok |-> FALSE, value |-> 0]
    ELSE IF acc > (I32Max - DigitValue(Head(text))) \div 10
         THEN [ok |-> FALSE, value |-> 0]
    ELSE parse_i32_from(Tail(text), acc * 10 + DigitValue(Head(text)))

parse_i32(text) ==
    IF text = <<>> THEN [ok |-> FALSE, value |-> 0]
    ELSE parse_i32_from(text, 0)

\* num.parse::<i32>().unwrap() on the text recognized
match_decimal_panics(input) ==
    LET n == many1_terminated(input, Digit)
    IN  n > 0 /\ ~parse_i32(Take(input, n)).ok

match_decimal(input) ==
    LET n == many1_terminated(input, Digit)
    IN  IF n = 0 THEN Err
        ELSE Ok(Drop(input, n), Token_Number(parse_i32(Take(input, n)).value))

match_token_single(input) ==
    IF tag(<<"*">>, input) > 0 THEN Ok(Drop(input, 1), Token_Plain("MUL"))
    ELSE IF tag(<<" ">>, input) > 0
    THEN Ok(Drop(input, 1), Token_Plain("Whitespace"))
    ELSE IF tag(<<"\t">>, input) > 0
    THEN Ok(Drop(input, 1), Token_Plain("Whitespace"))
    ELSE IF tag(<<"\n">>, input) > 0
    THEN Ok(Drop(input, 1), Token_Plain("Whitespace"))
    ELSE escaped_char(input)

Str_integer_overflow ==
    <<"i", "n", "t", "e", "g", "e", "r", "_",
      "o", "v", "e", "r", "f", "l", "o", "w">>

match_special_token(input) ==
    IF tag(<<"/", "*">>, input) > 0
    THEN Ok(Drop(input, 2), Token_Plain("StartComment"))
    ELSE IF tag(<<"*", "/">>, input) > 0
    THEN Ok(Drop(input, 2), Token_Plain("EndComment"))
    ELSE IF tag(<<"b", "u", "g">>, input) > 0
    THEN Ok(Drop(input, 3), Token_Plain("BugId"))
    ELSE IF tag(Str_integer_overflow, input) > 0
    THEN Ok(Drop(input, Len(Str_integer_overflow)),
            Token_Plain("IntegerOverflow"))
    ELSE Err

(***************************************************************************)
(* The inputs of the lexer: up to MaxPieces pieces put one after another   *)
(***************************************************************************)
Pieces ==
    {<<"x", "y">>, <<"3">>, <<"0">>, <<"_">>, <<" ">>, <<"*">>, <<"/">>, <<"#">>,
     <<";">>,
     <<"+">>, <<"\n">>, <<"b", "u", "g">>, Str_integer_overflow,
     <<"2", "1", "4", "7", "4", "8", "3", "6", "4", "8">>}

RECURSIVE PieceSeqs(_)
PieceSeqs(n) ==
    IF n = 0 THEN {<<>>}
    ELSE PieceSeqs(n - 1) \cup
         {p \o q : p \in Pieces, q \in PieceSeqs(n - 1)}

(***************************************************************************)
(* Modules for rename_basic_blocks_and_values: the globals, and for each   *)
(* function its parameters and its blocks with their instructions.  A name *)
(* is a prefix with an index; the empty sequence is no name.               *)
(***************************************************************************)
Unnamed == <<>>

\* format!("{prefix}{index}")
Name(prefix, index) == <<prefix, index>>

\* module.get_globals(), module.get_functions() and what they hold
RenameInst(void) == [void |-> void, name |-> Unnamed]

RenameBlockSet ==
    UNION {{[name |-> Unnamed, insts |-> [i \in 1..n |-> RenameInst(v[i])]] :
                v \in [1..n -> BOOLEAN]} : n \in 1..MaxInsts}

\* a declaration has no block, a definition has at least one
RenameFunctions ==
    {[params |-> [i \in 1..np |-> Unnamed], blocks |-> bs] :
        np \in 0..MaxParams,
        bs \in UNION {[1..nb -> RenameBlockSet] : nb \in 0..MaxFnBlocks}}

RenameModules ==
    {[globals |-> [i \in 1..ng |-> Unnamed], functions |-> fs] :
        ng \in 0..MaxGlobals,
        fs \in UNION {[1..nf -> RenameFunctions] : nf \in 0..MaxFunctions}}

is_only_declared(f) == Len(f.blocks) = 0

\* number of instructions of the sequence insts that are not of void type
RECURSIVE CountNonVoid(_)
CountNonVoid(insts) ==
    IF insts = <<>> THEN 0
    ELSE (IF Head(insts).void THEN 0 ELSE 1) + CountNonVoid(Tail(insts))

\* number of non-void instructions of the first k blocks
RECURSIVE CountNonVoidBlocks(_, _)
CountNonVoidBlocks(blocks, k) ==
    IF k = 0 THEN 0
    ELSE CountNonVoidBlocks(blocks, k - 1) + CountNonVoid(blocks[k].insts)

\* the instructions of a block renamed, value_index being the counter at the
\* start of the block
rename_insts(insts, value_index) ==
    [j \in 1..Len(insts) |->
        IF insts[j].void THEN insts[j]
        ELSE [insts[j] EXCEPT
                 !.name = Name("v", value_index
                                    + CountNonVoid(SubSeq(insts, 1, j - 1)))]]

\* the body of the loop over the functions
rename_function(f) ==
    IF is_only_declared(f) THEN f
    ELSE [params |-> [i \in 1..Len(f.params) |-> Name("arg", i - 1)],
          blocks |->
            [k \in 1..Len(f.blocks) |->
                [name |-> Name("bb", k - 1),
                 insts |-> rename_insts(f.blocks[k].insts,
                              Len(f.params)
                              + CountNonVoidBlocks(f.blocks, k - 1))]]]

\* block_index when the loop over the functions is left: each function
\* resets it before the test of is_only_declared
final_block_index(m) ==
    IF m.functions = <<>> THEN 0
    ELSE Len(m.functions[Len(m.functions)].blocks)

\* value_index when the loop over the functions is left
final_value_index(m) ==
    IF m.functions = <<>> THEN 0
    ELSE LET f == m.functions[Len(m.functions)]
         IN  IF is_only_declared(f) THEN 0
             ELSE Len(f.params) + CountNonVoidBlocks(f.blocks, Len(f.blocks))

\* the module after rename_basic_blocks_and_values
rename_basic_blocks_and_values_module(m) ==
    [globals |-> [i \in 1..Len(m.globals) |-> Name("g", i - 1)],
     functions |-> [i \in 1..Len(m.functions) |->
                       rename_function(m.functions[i])]]

\* the value rename_basic_blocks_and_values returns: updated starts false
\* and is combined with &=
rename_basic_blocks_and_values(m) ==
    LET global_index == Len(m.globals)
        updated0 == FALSE
        updated1 == updated0 /\ (global_index > 0)
        updated2 == updated1 /\ (final_value_index(m) > 0
                                 \/ final_block_index(m) > 0)
    IN  updated2

(***************************************************************************)
(* CodeFile.  A file name is its stem and its extension; an Option is a    *)
(* sequence of at most one value.                                          *)
(***************************************************************************)
FileName(stem, extension) == [stem |-> stem, ext |-> extension]

\* system::get_file_ext
get_file_ext(file_name) == file_name.ext

FileType_new(file_name) ==
    LET e == get_file_ext(file_name)
    IN  IF e \in {"c", "cpp", "cxx", "h", "hpp", "hxx"} THEN "CCpp"
        ELSE IF e = "sol" THEN "Solidity"
        ELSE IF e = "bc" THEN "LLVMBC"
        ELSE IF e = "ll" THEN "LLVMIR"
        ELSE IF e = "evm" THEN "EVMBC"
        ELSE IF e = "yul" THEN "YulIR"
        ELSE "Unknown"

EntryPoints == {"AllFunctions", "UserFunctions", "MainFunctions"}

CodeFile_new(file_name, entry_point) ==
    [file_name |-> file_name,
     file_type |-> FileType_new(file_name),
     entry_point |-> entry_point,
     original_file_name |-> <<>>,
     original_file_type |-> <<>>]

\* variant of CodeFile_derive_from_file that records the file it is derived
\* from as the original
CodeFile_derive_from_file_parent(file_name, orig_file) ==
    [CodeFile_new(file_name, orig_file.entry_point) EXCEPT
        !.original_file_name = <<orig_file.file_name>>,
        !.original_file_type = <<orig_file.file_type>>]

CodeFile_derive_from_file(file_name, orig_file) ==
    [CodeFile_new(file_name, orig_file.entry_point) EXCEPT
        !.original_file_name =
            IF orig_file.original_file_name = <<>>
            THEN <<orig_file.file_name>>
            ELSE orig_file.original_file_name,
        !.original_file_type =
            IF orig_file.original_file_type = <<>>
            THEN <<orig_file.file_type>>
            ELSE orig_file.original_file_type]

CodeFile_is_originally_from_c_cpp(self) ==
    self.original_file_type = <<"CCpp">>

CodeFile_is_originally_from_solidity(self) ==
    self.original_file_type = <<"Solidity">>

\* the file names the files of a chain are given
FileNames == {FileName("a", e) : e \in {"c", "sol", "ll", "bc"}}

(***************************************************************************)
(* simplify_module.  A function name is a prefix that the code tests with  *)
(* starts_with and the rest of the name.  A function body is the sequence  *)
(* of its instructions; an instruction has an id, an opcode, the function  *)
(* it calls and the ids of the instructions it uses as operands.  The use  *)
(* list of an instruction is the set of instructions that have it as an    *)
(* operand, the use list of a function the set of calls to it.             *)
(***************************************************************************)
FnName(prefix, rest) == [prefix |-> prefix, rest |-> rest]

NameStr(name) == name.prefix \o name.rest

starts_with(name, prefix) == name.prefix = prefix

C_LIB_FUNCS ==
    {"__isoc99_fscanf", "__isoc99_sscanf", "iswxdigit", "__isoc99_swscanf",
     "printf", "puts", "rand", "srand", "time", "wprintf", "__ctype_b_loc"}

SOLANG_WASM_LIB_FUNCS ==
    {
     "account_data_alloc", "account_data_free", "account_data_len", 
     "account_data_realloc", "address_equal", "address_hash", "__ashlti3", 
     "__ashrti3", "__be32toleN", "__beNtoleN", "bits", "bits128", 
     "bits256", "bits512", "__bzero8", "call", "callDataCopy", 
     "callDelegate", "callStatic", "codeCopy", "concat", "create", 
     "create_contract", "entrypoint", "external_call", "finish", "__free", 
     "getAddress", "getBlockCoinbase", "getBlockDifficulty", 
     "getBlockGasLimit", "getBlockHash", "getBlockNumber", 
     "getBlockTimestamp", "getCallDataSize", "getCaller", "getCallValue", 
     "getCodeSize", "getExternalBalance", "getExternalCodeSize", 
     "getGasLeft", "getReturnDataSize", "getTxGasPrice", "getTxOrigin", 
     "hex_encode", "hex_encode_rev", "__init_heap", "__leNtobe32", 
     "__leNtobeN", "llvm.assume", "llvm.uadd.with.overflow.i64", 
     "llvm.wasm.memory.size.i32", "log", "__lshrti3", "__malloc", 
     "__memcmp", "__memcmp_ord", "__memcpy", "__memcpy8", "__memset", 
     "__memset8", "__mul32", "printMem", "__realloc", "returnDataCopy", 
     "revert", "ripemd160", "ripemd160_compress", "sdivmod128", 
     "sdivmod256", "sdivmod512", "selfDestruc", "shl128", "shr128", 
     "signature_verify", "solang_dispatch", "SolPubkey_same", 
     "sol_account_lamport", "sol_clock", "sol_transfer", 
     "sol_try_transfer", "storageLoad", "storageStore", "udivmod128", 
     "udivmod256", "udivmod512", "uint128dec", "uint256dec", "uint2bin", 
     "uint2dec", "uint2hex", "vector_hash", "vector_new"}

builtin_is_c_library_function(func_name) == NameStr(func_name) \in C_LIB_FUNCS

builtin_is_c_main_function(func_name) == NameStr(func_name) = "main"

builtin_is_solidity_library_function(func_name) ==
    NameStr(func_name) \in SOLANG_WASM_LIB_FUNCS

builtin_is_assertio_checking_function(func_name) ==
    \/ starts_with(func_name, "__assert_")
    \/ starts_with(func_name, "__refute_")
    \/ starts_with(func_name, "__assume_")

is_c_library_function(name, f) ==
    /\ CodeFile_is_originally_from_c_cpp(f)
    /\ builtin_is_c_library_function(name)

is_solidity_library_function(name, f) ==
    /\ CodeFile_is_originally_from_solidity(f)
    /\ builtin_is_solidity_library_function(name)

is_assertion_checking_function(name) ==
    builtin_is_assertio_checking_function(name)

is_library_function(name, f) ==
    \/ is_c_library_function(name, f)
    \/ is_solidity_library_function(name, f)
    \/ is_assertion_checking_function(name)

is_c_main_function(name, f) ==
    /\ CodeFile_is_originally_from_c_cpp(f)
    /\ builtin_is_c_main_function(name)

is_solidity_entry_function(name, f) ==
    /\ CodeFile_is_originally_from_solidity(f)
    /\ ~builtin_is_solidity_library_function(name)

NoCallee == FnName("", "")

Instruction(id, opcode, callee, operands) ==
    [id |-> id, opcode |-> opcode, callee |-> callee, operands |-> operands]

\* ids of the instructions of a body that have a value
ValueIds(body) ==
    {body[i].id : i \in {j \in 1..Len(body) : body[j].opcode # "Call"}}

\* the instructions that can follow a body, calling functions of callees
InstsAfter(body, callees) ==
    {Instruction(Len(body) + 1, opc, NoCallee, ops) :
        opc \in {"Load", "Other"}, ops \in SUBSET ValueIds(body)}
    \cup {Instruction(Len(body) + 1, "Call", c, {}) : c \in callees}

RECURSIVE Bodies(_, _)
Bodies(n, callees) ==
    IF n = 0 THEN {<<>>}
    ELSE LET shorter == Bodies(n - 1, callees)
         IN  shorter \cup
             UNION {{Append(b, i) : i \in InstsAfter(b, callees)} :
                    b \in {s \in shorter : Len(s) = n - 1}}

Insts(body) == {body[i] : i \in 1..Len(body)}

\* InstructionValue::get_first_use() == None
Inst_is_unused(body, inst) ==
    \A user \in Insts(body) : inst.id \notin user.operands

\* InstructionValue::erase_from_basic_block for every instruction of ids
erase_from_basic_block(body, ids) ==
    LET keep(i) == i.id \notin ids
    IN  [i \in 1..Len(SelectSeq(body, keep)) |->
            [SelectSeq(body, keep)[i] EXCEPT !.operands = @ \ ids]]

\* the unused_instrs of one round of the fix-point of eliminate_unused_load
unused_instrs_of(body) ==
    {i.id : i \in {j \in Insts(body) :
                     j.opcode = "Load" /\ Inst_is_unused(body, j)}}

\* the body that eliminate_unused_load leaves
RECURSIVE eliminate_unused_load_body(_)
eliminate_unused_load_body(body) ==
    IF unused_instrs_of(body) = {} THEN body
    ELSE eliminate_unused_load_body(
             erase_from_basic_block(body, unused_instrs_of(body)))

\* the result of eliminate_unused_load
eliminate_unused_load(body) == unused_instrs_of(body) # {}

simplify_function(body) ==
    LET changed0 == FALSE
        changed1 == changed0 /\ eliminate_unused_load(body)
    IN  changed1

\* Module::get_functions
get_functions(m) == DOMAIN m.functions

\* FunctionValue::get_first_use().is_some()
Function_is_used(m, name) ==
    \E caller \in get_functions(m) :
        \E i \in Insts(m.functions[caller]) :
            i.opcode = "Call" /\ i.callee = name

unused_funcs_of(f, m) ==
    {fn \in get_functions(m) :
        /\ ~Function_is_used(m, fn)
        /\ IF f.entry_point = "MainFunctions"
           THEN ~is_c_main_function(fn, f)
                /\ ~is_solidity_entry_function(fn, f)
           ELSE IF f.entry_point = "UserFunctions"
           THEN is_library_function(fn, f)
           ELSE FALSE}

\* FunctionValue::delete for every function of funcs
delete_functions(m, funcs) ==
    [m EXCEPT !.functions =
        [n \in get_functions(m) \ funcs |-> m.functions[n]]]

remove_unused_functions(f, m) == unused_funcs_of(f, m) # {}

remove_unused_functions_module(f, m) ==
    delete_functions(m, unused_funcs_of(f, m))

is_lifetime_call(m, i) ==
    /\ i.opcode = "Call"
    /\ i.callee \in get_functions(m)
    /\ starts_with(i.callee, "llvm.lifetime")

\* the result of eliminate_intrinsic_lifetime_instructions
eliminate_intrinsic_lifetime_instructions(m, fn) ==
    {i.callee : i \in {j \in Insts(m.functions[fn]) :
                          is_lifetime_call(m, j)}}

\* the body that eliminate_intrinsic_lifetime_instructions leaves
eliminate_intrinsic_lifetime_instructions_body(m, fn) ==
    erase_from_basic_block(
        m.functions[fn],
        {i.id : i \in {j \in Insts(m.functions[fn]) :
                          is_lifetime_call(m, j)}})

intrinsic_lifetime_funcs_of(m) ==
    UNION {eliminate_intrinsic_lifetime_instructions(m, fn) :
           fn \in get_functions(m)}

remove_llvm_instrinsic_lifetime(m) == intrinsic_lifetime_funcs_of(m) # {}

remove_llvm_instrinsic_lifetime_module(m) ==
    delete_functions(
        [m EXCEPT !.functions =
            [fn \in get_functions(m) |->
                eliminate_intrinsic_lifetime_instructions_body(m, fn)]],
        intrinsic_lifetime_funcs_of(m))

remove_inline_asm(m) == FALSE

\* the functions simplify_module hands to simplify_function
simplified_functions(f, m) ==
    {fn \in get_functions(m) :
        ~(Len(m.functions[fn]) = 0 \/ is_c_library_function(fn, f))}

\* the module that simplify_module leaves
simplify_module_module(f, m) ==
    LET m1 == remove_unused_functions_module(f, m)
        m2 == remove_llvm_instrinsic_lifetime_module(m1)
    IN  [m2 EXCEPT !.functions =
            [fn \in get_functions(m2) |->
                IF fn \in simplified_functions(f, m2)
                THEN eliminate_unused_load_body(m2.functions[fn])
                ELSE m2.functions[fn]]]

\* the result of simplify_module
simplify_module(f, m) ==
    LET m1 == remove_unused_functions_module(f, m)
        m2 == remove_llvm_instrinsic_lifetime_module(m1)
        changed0 == FALSE
        changed1 == changed0 /\ remove_unused_functions(f, m)
        changed2 == changed1 /\ remove_llvm_instrinsic_lifetime(m1)
        changed3 == changed2 /\ remove_inline_asm(m2)
        changed4 == changed3 /\ \A fn \in simplified_functions(f, m2) :
                                    simplify_function(m2.functions[fn])
    IN  changed4

Fn_main == FnName("", "main")
Fn_foo == FnName("", "foo")
Fn_printf == FnName("", "printf")
Fn_lifetime == FnName("llvm.lifetime", ".start")

\* the functions of the modules that are simplified
SimplifyNames == {Fn_main, Fn_foo, Fn_printf, Fn_lifetime}

(***************************************************************************)
(* AnyCmp::get_predicate.  An instruction has an opcode, the predicate of  *)
(* a comparison and the kind of its result type: the result of an icmp or  *)
(* fcmp is i1 on scalars and a vector of i1 on vectors.                    *)
(***************************************************************************)
NoPredicate == "none"

CmpInsts ==
    {[opcode |-> "ICmp", predicate |-> p, type |-> t] :
        p \in IntPredicates, t \in {"int", "vector"}}
    \cup {[opcode |-> "FCmp", predicate |-> p, type |-> t] :
            p \in FloatPredicates, t \in {"int", "vector"}}

OtherInsts ==
    {[opcode |-> "Other", predicate |-> NoPredicate, type |-> t] :
        t \in {"int", "float", "vector"}}

\* InstructionValue::get_icmp_predicate: the predicate of an icmp; on any
\* other instruction None, or whatever predicate LLVM reads from it
InstructionValue_get_icmp_predicate(inst) ==
    IF inst.opcode = "ICmp" THEN {<<inst.predicate>>}
    ELSE {<<>>} \cup {<<p>> : p \in IntPredicates}

\* InstructionValue::get_fcmp_predicate, likewise
InstructionValue_get_fcmp_predicate(inst) ==
    IF inst.opcode = "FCmp" THEN {<<inst.predicate>>}
    ELSE {<<>>} \cup {<<p>> : p \in FloatPredicates}

is_int_type(type) == type = "int"

is_float_type(type) == type = "float"

PredicateOutcome(panics, val) == [panic |-> panics, val |-> val]

\* the outcomes of get_predicate: a predicate or the panic
AnyCmp_get_predicate(self) ==
    IF is_int_type(self.type)
    THEN {IF p # <<>> THEN PredicateOutcome(FALSE, <<IntPred(p[1])>>)
                      ELSE PredicateOutcome(TRUE, <<>>) :
          p \in InstructionValue_get_icmp_predicate(self)}
    ELSE IF is_float_type(self.type)
    THEN {IF p # <<>> THEN PredicateOutcome(FALSE, <<FloatPred(p[1])>>)
                      ELSE PredicateOutcome(TRUE, <<>>) :
          p \in InstructionValue_get_fcmp_predicate(self)}
    ELSE {PredicateOutcome(TRUE, <<>>)}

(***************************************************************************)
(* The annotation parser.  A TokenInfo is a token and its position; the    *)
(* parser tells StartComment, EndComment and IntegerOverflow from every    *)
(* other token.                                                            *)
(***************************************************************************)
TokenInfo(token, line, col) ==
    [token |-> token, position |-> [line |-> line, col |-> col]]

\* the tokens as the parser sees them
ParserTokens == {"StartComment", "EndComment", "IntegerOverflow", "IDENT"}

ParserToken(kind) ==
    IF kind = "IDENT" THEN Token_IDENT(<<"x">>) ELSE Token_Plain(kind)

Annotation_new(b_type) == [bug_type |-> b_type, tokens |-> <<>>]

Annotation_update_type(self, b_type) == [self EXCEPT !.bug_type = b_type]

Annotation_update_identifiers(self, toks) == [self EXCEPT !.tokens = toks]

\* variant of parse_annotation that takes the position of the first token
parse_annotation_first(annot) ==
    IF annot.bug_type = "IntegerOverflow" /\ Len(annot.tokens) = 3
    THEN <<<<"IntegerOverflow", annot.tokens[1].position.line,
             annot.tokens[1].position.col>>>>
    ELSE <<>>

\* Some(triple) is a sequence of one triple, None the empty sequence
parse_annotation(annot) ==
    IF annot.bug_type = "IntegerOverflow" /\ Len(annot.tokens) = 3
    THEN <<<<"IntegerOverflow", annot.tokens[2].position.line,
             annot.tokens[2].position.col>>>>
    ELSE <<>>

\* the locals of parsing before its first loop
parsing_locals ==
    [annotations |-> <<>>, comment_start |-> FALSE,
     bug_annotation_start |-> FALSE, elements |-> <<>>,
     annotation |-> Annotation_new("Unknown")]

\* the body of the first loop of parsing
parsing_step(st, token) ==
    IF token.token.kind = "StartComment"
    THEN IF st.bug_annotation_start
         THEN [st EXCEPT
                 !.annotations =
                     Append(@, Annotation_update_identifiers(st.annotation,
                                                             st.elements)),
                 !.elements = <<>>,
                 !.annotation = Annotation_new("Unknown"),
                 !.bug_annotation_start = FALSE,
                 !.comment_start = TRUE]
         ELSE [st EXCEPT !.comment_start = TRUE]
    ELSE IF token.token.kind = "EndComment"
    THEN [st EXCEPT !.comment_start = FALSE]
    ELSE IF token.token.kind = "IntegerOverflow"
    THEN IF st.comment_start
         THEN [st EXCEPT
                 !.annotation =
                     Annotation_update_type(@, "IntegerOverflow"),
                 !.bug_annotation_start = TRUE]
         ELSE st
    ELSE IF st.bug_annotation_start
         THEN [st EXCEPT !.elements = Append(@, token)]
         ELSE st

RECURSIVE parsing_loop(_, _)
parsing_loop(st, toks) ==
    IF toks = <<>> THEN st
    ELSE parsing_loop(parsing_step(st, Head(toks)), Tail(toks))

\* the second loop of parsing
RECURSIVE annot_pairs_of(_)
annot_pairs_of(annotations) ==
    IF annotations = <<>> THEN <<>>
    ELSE parse_annotation(Head(annotations))
         \o annot_pairs_of(Tail(annotations))

parsing(toks) == annot_pairs_of(parsing_loop(parsing_locals, toks).annotations)

\* the runs of tokens the inputs of the parser are made of: one token, or
\* three tokens that an annotation collects
TokenRuns == {<<t>> : t \in ParserTokens} \cup {<<"IDENT", "IDENT", "IDENT">>}

\* the sequences of tokens made of up to n runs
RECURSIVE TokenSeqs(_)
TokenSeqs(n) ==
    IF n = 0 THEN {<<>>}
    ELSE {<<>>} \cup {r \o s : r \in TokenRuns, s \in TokenSeqs(n - 1)}

(***************************************************************************)
(* match_token, nom_lexing and nom_lexing_filtered.  The position of a     *)
(* token is the line and the column at which the rest of the input began   *)
(* when the token was matched, computed from the text consumed before.     *)
(***************************************************************************)
\* Span::location_line after the text consumed
location_line(consumed) == 1 + CountIn(consumed, "\n")

\* Span::get_column after the text consumed
RECURSIVE get_column(_)
get_column(consumed) ==
    IF consumed = <<>> \/ consumed[Len(consumed)] = "\n" THEN 1
    ELSE 1 + get_column(SubSeq(consumed, 1, Len(consumed) - 1))

match_token_panics(input) ==
    /\ match_special_token(input).status = "Err"
    /\ match_token_single(input).status = "Err"
    /\ match_decimal_panics(input)

match_token(input) ==
    IF match_special_token(input).status = "Ok"
    THEN match_special_token(input)
    ELSE IF match_token_single(input).status = "Ok"
    THEN match_token_single(input)
    ELSE IF match_decimal(input).status = "Ok"
    THEN match_decimal(input)
    ELSE identifier(input)

\* Vec<TokenInfo> or a panic
Lexed(panics, toks) == [panic |-> panics, tokens |-> toks]

\* nom_lexing on the rest of an input of which consumed has been matched
RECURSIVE nom_lexing_from(_, _)
nom_lexing_from(consumed, input) ==
    LET result == match_token(input)
        n == Len(input) - Len(result.rest)
        token == TokenInfo(result.token, location_line(consumed),
                           get_column(consumed))
    IN  IF match_token_panics(input) \/ result.status # "Ok"
        THEN Lexed(TRUE, <<>>)
        ELSE IF result.rest = <<>> THEN Lexed(FALSE, <<token>>)
        ELSE LET rec == nom_lexing_from(consumed \o Take(input, n),
                                        result.rest)
             IN  IF rec.panic THEN rec
                 ELSE Lexed(FALSE, Append(rec.tokens, token))

nom_lexing(input) == nom_lexing_from(<<>>, input)

is_important_token(token) == token.kind \notin {"Whitespace", "EscapedChar"}

\* Vec::reverse
Reverse(s) == [i \in 1..Len(s) |-> s[Len(s) + 1 - i]]

\* variant of nom_lexing_filtered that leaves out the final reverse
nom_lexing_filtered_unreversed(input) ==
    LET important(t) == is_important_token(t.token)
    IN  Lexed(nom_lexing(input).panic,
              SelectSeq(nom_lexing(input).tokens, important))

nom_lexing_filtered(input) ==
    LET important(t) == is_important_token(t.token)
    IN  Lexed(nom_lexing(input).panic,
              Reverse(SelectSeq(nom_lexing(input).tokens, important)))

\* i32::to_string of a number that is not negative
RECURSIVE i32_to_string(_)
i32_to_string(n) ==
    IF n < 10 THEN <<DigitChars[n + 1]>>
    ELSE i32_to_string(n \div 10) \o <<DigitChars[(n % 10) + 1]>>

token_to_string(token) ==
    CASE token.kind = "MUL" -> <<"*">>
      [] token.kind = "BugId" -> <<"B", "U", "G">>
      [] token.kind = "IntegerOverflow" -> Str_integer_overflow
      [] token.kind = "StartComment" -> <<"/", "*">>
      [] token.kind = "EndComment" -> <<"*", "/">>
      [] token.kind = "IDENT" -> token.text
      [] token.kind = "Number" -> i32_to_string(token.num)
      [] token.kind = "Whitespace" -> <<" ">>
      [] token.kind = "EscapedChar" -> token.text

(***************************************************************************)
(* Values the other parts hold while a specification does not use them     *)
(***************************************************************************)
IdleGraph ==
    /\ term = [b \in Blocks |-> NoTerm]
    /\ uses = [b \in Blocks |-> <<>>]

IdlePredicate ==
    /\ pred = "none"
    /\ opnds = <<>>

IdleLexer == span = <<>>

IdleModule == ir_module = "none"

IdleCmp == cmp = "none"

IdleParser == tokens = <<>>

IdleElim == elim = "none"

IdleFile == file = "none"

(***************************************************************************)
(* Specification                                                           *)
(***************************************************************************)
NoCall ==
    [op |-> "none", blk |-> NoBlock, arg |-> NoBlock, val |-> <<>>,
     panic |-> FALSE]

\* what a call on block b hands back: its value, or the fact that it
\* panicked
Returned(op, b, panics, val) ==
    [op |-> op, blk |-> b, arg |-> NoBlock,
     val |-> IF panics THEN <<>> ELSE val, panic |-> panics]

\* what a call on block b with the block o as argument hands back
Returned2(op, b, o, val) ==
    [op |-> op, blk |-> b, arg |-> o, val |-> val, panic |-> FALSE]

\* the control-flow graphs within the bounds
InitGraph(budget) ==
    /\ term \in TermSeqs(NumBlocks, budget)
    /\ \E nc \in [Blocks -> 0..budget] :
          /\ TotalBlockOperands(term) + SumSeq([b \in 1..NumBlocks |-> nc[b]])
                <= budget
          /\ uses \in UseLists(term, nc, NumBlocks)

Init ==
    /\ InitGraph(MaxUses)
    /\ func = AllAttached
    /\ IdlePredicate
    /\ IdleLexer
    /\ IdleModule
    /\ IdleCmp
    /\ IdleParser
    /\ IdleElim
    /\ IdleFile
    /\ ret = NoCall

Call_get_successors(b) ==
    /\ ret' = Returned("get_successors", b, FALSE,
                       BasicBlock_get_successors(b))
    /\ UNCHANGED <<term, uses, func>>
    /\ UNCHANGED frame_cfg

Call_get_conditioned_successors(b) ==
    /\ ret' = Returned("get_conditioned_successors", b,
                       BasicBlock_get_conditioned_successors_panics(b),
                       BasicBlock_get_conditioned_successors(b))
    /\ UNCHANGED <<term, uses, func>>
    /\ UNCHANGED frame_cfg

\* variant of Call_get_predecessors that unlinks the uses it has visited
Call_get_predecessors_unlinking(b) ==
    /\ ret' = Returned("get_predecessors", b, FALSE,
                       BasicBlock_get_predecessors(b))
    /\ uses' = [uses EXCEPT ![b] = <<>>]
    /\ UNCHANGED <<term, func>>
    /\ UNCHANGED frame_cfg

Call_get_predecessors(b) ==
    /\ ret' = Returned("get_predecessors", b, FALSE,
                       BasicBlock_get_predecessors(b))
    /\ UNCHANGED <<term, uses, func>>
    /\ UNCHANGED frame_cfg

Call_get_conditioned_predecessors(b) ==
    /\ ret' = Returned("get_conditioned_predecessors", b,
                       BasicBlock_get_conditioned_predecessors_panics(b),
                       BasicBlock_get_conditioned_predecessors(b))
    /\ UNCHANGED <<term, uses, func>>
    /\ UNCHANGED frame_cfg

\* get_condition of the branch instruction that ends block b
Call_get_condition(b) ==
    /\ TerminatorInst_as_branch_inst(term[b])
    /\ ret' = Returned("get_condition", b,
                       AnyCondition_get_condition_panics(term[b]),
                       <<AnyCondition_get_condition(term[b])>>)
    /\ UNCHANGED <<term, uses, func>>
    /\ UNCHANGED frame_cfg

(***************************************************************************)
(* Operations on the block list                                            *)
(***************************************************************************)
\* the handles a caller may still use
Live == Blocks \ func.deleted

Call_move_before(b, o) ==
    /\ b \in Live /\ o \in Live
    /\ func' = BasicBlock_move_before(b, o).func
    /\ ret' = Returned2("move_before", b, o,
                        <<BasicBlock_move_before(b, o).result>>)
    /\ UNCHANGED <<term, uses>>
    /\ UNCHANGED frame_cfg

Call_move_after(b, o) ==
    /\ b \in Live /\ o \in Live
    /\ func' = BasicBlock_move_after(b, o).func
    /\ ret' = Returned2("move_after", b, o,
                        <<BasicBlock_move_after(b, o).result>>)
    /\ UNCHANGED <<term, uses>>
    /\ UNCHANGED frame_cfg

Call_remove_from_function(b) ==
    /\ b \in Live
    /\ func' = BasicBlock_remove_from_function(b).func
    /\ ret' = Returned("remove_from_function", b, FALSE,
                       <<BasicBlock_remove_from_function(b).result>>)
    /\ UNCHANGED <<term, uses>>
    /\ UNCHANGED frame_cfg

Call_delete(b) ==
    /\ b \in Live
    /\ func' = BasicBlock_delete(b).func
    /\ ret' = Returned("delete", b, FALSE, <<BasicBlock_delete(b).result>>)
    /\ UNCHANGED <<term, uses>>
    /\ UNCHANGED frame_cfg

Call_get_parent(b) ==
    /\ b \in Live
    /\ ret' = Returned("get_parent", b, FALSE,
                       IF BasicBlock_get_parent(b) THEN <<"function">>
                       ELSE <<>>)
    /\ UNCHANGED <<term, uses, func>>
    /\ UNCHANGED frame_cfg

Call_get_previous_basic_block(b) ==
    /\ b \in Live
    /\ ret' = Returned("get_previous_basic_block", b, FALSE,
                       BasicBlock_get_previous_basic_block(b))
    /\ UNCHANGED <<term, uses, func>>
    /\ UNCHANGED frame_cfg

Call_get_next_basic_block(b) ==
    /\ b \in Live
    /\ ret' = Returned("get_next_basic_block", b, FALSE,
                       BasicBlock_get_next_basic_block(b))
    /\ UNCHANGED <<term, uses, func>>
    /\ UNCHANGED frame_cfg

\* the block list alone: a function of NumBlocks empty blocks
InitLayout ==
    /\ IdleGraph
    /\ func = AllAttached
    /\ IdlePredicate
    /\ IdleLexer
    /\ IdleModule
    /\ IdleCmp
    /\ IdleParser
    /\ IdleElim
    /\ IdleFile
    /\ ret = NoCall

NextLayout ==
    \/ \E b, o \in Blocks : Call_move_before(b, o)
    \/ \E b, o \in Blocks : Call_move_after(b, o)
    \/ \E b \in Blocks : Call_remove_from_function(b)
    \/ \E b \in Blocks : Call_delete(b)
    \/ \E b \in Blocks : Call_get_parent(b)
    \/ \E b \in Blocks : Call_get_previous_basic_block(b)
    \/ \E b \in Blocks : Call_get_next_basic_block(b)

SpecLayout == InitLayout /\ [][NextLayout]_vars

\* the queries on a graph whose blocks are being removed from the function
InitDetach ==
    /\ InitGraph(DetachUses)
    /\ func = AllAttached
    /\ IdlePredicate
    /\ IdleLexer
    /\ IdleModule
    /\ IdleCmp
    /\ IdleParser
    /\ IdleElim
    /\ IdleFile
    /\ ret = NoCall

NextDetach ==
    \/ \E b \in Blocks : Call_remove_from_function(b)
    \/ \E b \in Blocks : Call_get_successors(b)
    \/ \E b \in Blocks : Call_get_conditioned_successors(b)
    \/ \E b \in Blocks : Call_get_predecessors(b)
    \/ \E b \in Blocks : Call_get_conditioned_predecessors(b)

SpecDetach == InitDetach /\ [][NextDetach]_vars

(***************************************************************************)
(* negate on every predicate, with a pair of operands to evaluate it on    *)
(***************************************************************************)
InitPredicate ==
    /\ IdleGraph
    /\ func = AllAttached
    /\ pred \in BinaryPredicates
    /\ opnds \in IF pred.family = "IntPred"
                 THEN IntVals \X IntVals
                 ELSE FloatVals \X FloatVals
    /\ IdleLexer
    /\ IdleModule
    /\ IdleCmp
    /\ IdleParser
    /\ IdleElim
    /\ IdleFile
    /\ ret = NoCall

Call_negate ==
    /\ ret.op = "none"
    /\ ret' = Returned("negated", NoBlock, FALSE, <<negate(pred)>>)
    /\ UNCHANGED <<pred, opnds>>
    /\ UNCHANGED frame_predicate

\* negate applied to the predicate the previous call returned
Call_negate_again ==
    /\ ret.op = "negated"
    /\ ret' = Returned("negated_twice", NoBlock, FALSE,
                       <<negate(ret.val[1])>>)
    /\ UNCHANGED <<pred, opnds>>
    /\ UNCHANGED frame_predicate

NextPredicate ==
    \/ Call_negate
    \/ Call_negate_again

SpecPredicate == InitPredicate /\ [][NextPredicate]_vars

(***************************************************************************)
(* The matchers of the lexer, each on the whole span                       *)
(***************************************************************************)
InitLexer ==
    /\ IdleGraph
    /\ func = AllAttached
    /\ IdlePredicate
    /\ span \in PieceSeqs(MaxPieces)
    /\ IdleModule
    /\ IdleCmp
    /\ IdleParser
    /\ IdleElim
    /\ IdleFile
    /\ ret = NoCall

Call_identifier ==
    /\ ret' = Returned("identifier", NoBlock, FALSE, <<identifier(span)>>)
    /\ UNCHANGED span
    /\ UNCHANGED frame_lexer

Call_escaped_char ==
    /\ ret' = Returned("escaped_char", NoBlock, FALSE,
                       <<escaped_char(span)>>)
    /\ UNCHANGED span
    /\ UNCHANGED frame_lexer

Call_match_decimal ==
    /\ ret' = Returned("match_decimal", NoBlock, match_decimal_panics(span),
                       <<match_decimal(span)>>)
    /\ UNCHANGED span
    /\ UNCHANGED frame_lexer

Call_match_token_single ==
    /\ ret' = Returned("match_token_single", NoBlock, FALSE,
                       <<match_token_single(span)>>)
    /\ UNCHANGED span
    /\ UNCHANGED frame_lexer

Call_match_special_token ==
    /\ ret' = Returned("match_special_token", NoBlock, FALSE,
                       <<match_special_token(span)>>)
    /\ UNCHANGED span
    /\ UNCHANGED frame_lexer

NextLexer ==
    \/ Call_identifier
    \/ Call_escaped_char
    \/ Call_match_decimal
    \/ Call_match_token_single
    \/ Call_match_special_token

SpecLexer == InitLexer /\ [][NextLexer]_vars

(***************************************************************************)
(* rename_basic_blocks_and_values on every module within the bounds        *)
(***************************************************************************)
InitRename ==
    /\ IdleGraph
    /\ func = AllAttached
    /\ IdlePredicate
    /\ IdleLexer
    /\ ir_module \in RenameModules
    /\ IdleCmp
    /\ IdleParser
    /\ IdleElim
    /\ IdleFile
    /\ ret = NoCall

Call_rename_basic_blocks_and_values ==
    /\ ret.op = "none"
    /\ ir_module' = rename_basic_blocks_and_values_module(ir_module)
    /\ ret' = Returned("rename", NoBlock, FALSE,
                       <<rename_basic_blocks_and_values(ir_module)>>)
    /\ UNCHANGED frame_module

NextRename == Call_rename_basic_blocks_and_values

SpecRename == InitRename /\ [][NextRename]_vars

(***************************************************************************)
(* Chains of CodeFile::derive_from_file.  file holds the files of the      *)
(* chain, the one made by CodeFile::new first.                             *)
(***************************************************************************)
InitFile ==
    /\ IdleGraph
    /\ func = AllAttached
    /\ IdlePredicate
    /\ IdleLexer
    /\ IdleModule
    /\ IdleCmp
    /\ IdleParser
    /\ IdleElim
    /\ \E n \in FileNames, e \in EntryPoints : file = <<CodeFile_new(n, e)>>
    /\ ret = NoCall

Call_derive_from_file(file_name) ==
    /\ Len(file) < MaxChain
    /\ file' = Append(file,
                      CodeFile_derive_from_file(file_name, file[Len(file)]))
    /\ ret' = Returned("derive_from_file", NoBlock, FALSE,
                       <<CodeFile_derive_from_file(file_name,
                                                   file[Len(file)])>>)
    /\ UNCHANGED frame_file

NextFile == \E n \in FileNames : Call_derive_from_file(n)

SpecFile == InitFile /\ [][NextFile]_vars

(***************************************************************************)
(* simplify_module on a module of a bitcode file derived from a source     *)
(* file.  main and foo are defined or declared, printf and                 *)
(* llvm.lifetime.start are declared.                                       *)
(***************************************************************************)
InitSimplify ==
    /\ IdleGraph
    /\ func = AllAttached
    /\ IdlePredicate
    /\ IdleLexer
    /\ IdleCmp
    /\ IdleParser
    /\ IdleElim
    /\ \E n \in FileNames \ {FileName("a", "bc")}, e \in EntryPoints :
          file = <<CodeFile_new(n, e),
                   CodeFile_derive_from_file(FileName("a", "bc"),
                                             CodeFile_new(n, e))>>
    /\ \E present \in SUBSET SimplifyNames :
          \E body_main, body_foo \in Bodies(MaxSimplifyInsts, present) :
             ir_module =
                [functions |->
                    [n \in present |->
                        IF n = Fn_main THEN body_main
                        ELSE IF n = Fn_foo THEN body_foo
                        ELSE <<>>]]
    /\ ret = NoCall

Call_simplify_module ==
    /\ ret.op = "none"
    /\ ir_module' = simplify_module_module(file[Len(file)], ir_module)
    /\ ret' = Returned("simplify", NoBlock, FALSE,
                       <<simplify_module(file[Len(file)], ir_module),
                         ir_module>>)
    /\ UNCHANGED frame_module

NextSimplify == Call_simplify_module

SpecSimplify == InitSimplify /\ [][NextSimplify]_vars

(***************************************************************************)
(* eliminate_unused_load, one step per loop test, per collection of the    *)
(* unused loads and per erased instruction.  elim holds the body of the    *)
(* function, the locals of the call, the body at the call and the ids of   *)
(* the instructions erased so far.                                         *)
(***************************************************************************)
InitLoads ==
    /\ IdleGraph
    /\ func = AllAttached
    /\ IdlePredicate
    /\ IdleLexer
    /\ IdleModule
    /\ IdleCmp
    /\ IdleParser
    /\ IdleFile
    /\ \E body \in Bodies(MaxLoadInsts, {Fn_foo}) :
          elim = [body |-> body, at_call |-> body, pc |-> "while",
                  changed |-> FALSE, deleted |-> TRUE,
                  unused_instrs |-> <<>>, erased |-> {}]
    /\ ret = NoCall

\* variant of Loads_while that leaves the loop after its first round
Loads_while_one_round ==
    /\ elim.pc = "while"
    /\ IF elim.deleted /\ elim.erased = {}
       THEN /\ elim' = [elim EXCEPT !.deleted = FALSE, !.pc = "collect"]
            /\ ret' = ret
       ELSE /\ elim' = [elim EXCEPT !.pc = "return"]
            /\ ret' = Returned("eliminate_unused_load", NoBlock, FALSE,
                               <<elim.changed>>)
    /\ UNCHANGED frame_elim

\* while deleted { deleted = false; ... } changed
Loads_while ==
    /\ elim.pc = "while"
    /\ IF elim.deleted
       THEN /\ elim' = [elim EXCEPT !.deleted = FALSE, !.pc = "collect"]
            /\ ret' = ret
       ELSE /\ elim' = [elim EXCEPT !.pc = "return"]
            /\ ret' = Returned("eliminate_unused_load", NoBlock, FALSE,
                               <<elim.changed>>)
    /\ UNCHANGED frame_elim

\* the loop that pushes the unused loads, in the order of the instructions
Loads_collect ==
    /\ elim.pc = "collect"
    /\ elim' = [elim EXCEPT
                  !.unused_instrs =
                      LET unused(i) == i.id \in unused_instrs_of(elim.body)
                          found == SelectSeq(elim.body, unused)
                      IN  [k \in 1..Len(found) |-> found[k].id],
                  !.pc = "erase"]
    /\ UNCHANGED <<ret, frame_elim>>

\* one iteration of for inst in unused_instrs, or its end
Loads_erase ==
    /\ elim.pc = "erase"
    /\ IF elim.unused_instrs = <<>>
       THEN elim' = [elim EXCEPT !.pc = "while"]
       ELSE elim' = [elim EXCEPT
                       !.body = erase_from_basic_block(
                                    @, {Head(elim.unused_instrs)}),
                       !.erased = @ \cup {Head(elim.unused_instrs)},
                       !.unused_instrs = Tail(@),
                       !.deleted = TRUE,
                       !.changed = TRUE]
    /\ UNCHANGED <<ret, frame_elim>>

NextLoads == Loads_while \/ Loads_collect \/ Loads_erase

\* the call runs on: nothing but the loop itself can keep it from a step
SpecLoads == InitLoads /\ [][NextLoads]_vars /\ WF_vars(NextLoads)

(***************************************************************************)
(* get_predicate on an instruction wrapped as a CmpInst.                   *)
(***************************************************************************)
InitCmp ==
    /\ IdleGraph
    /\ func = AllAttached
    /\ IdlePredicate
    /\ IdleLexer
    /\ IdleModule
    /\ IdleParser
    /\ IdleElim
    /\ IdleFile
    /\ cmp \in CmpInsts \cup OtherInsts
    /\ ret = NoCall

Call_get_predicate ==
    /\ ret.op = "none"
    /\ \E o \in AnyCmp_get_predicate(cmp) :
          ret' = Returned("get_predicate", NoBlock, o.panic, o.val)
    /\ UNCHANGED cmp
    /\ UNCHANGED frame_cmp

NextCmp == Call_get_predicate

SpecCmp == InitCmp /\ [][NextCmp]_vars

(***************************************************************************)
(* SwitchInst::get_case on the switch that ends a block.  A read beyond    *)
(* the cases of the switch yields whatever lies there, or crashes.         *)
(***************************************************************************)
Call_get_case(b, index) ==
    /\ ret.op = "none"
    /\ TerminatorInst_as_switch_inst(term[b])
    /\ LET case == SwitchInst_get_case(term[b], index)
       IN  IF case = NoCase
           THEN ret' = [Returned("get_case", b, FALSE, <<>>)
                           EXCEPT !.arg = index]
           ELSE IF case = BeyondCases
           THEN \/ \E v \in CaseVals \cup {BeyondCases} :
                      ret' = [Returned("get_case", b, FALSE, <<v>>)
                                 EXCEPT !.arg = index]
                \/ ret' = [Returned("get_case", b, TRUE, <<>>)
                              EXCEPT !.arg = index]
           ELSE ret' = [Returned("get_case", b, FALSE, <<case>>)
                           EXCEPT !.arg = index]
    /\ UNCHANGED <<term, uses, func>>
    /\ UNCHANGED frame_cfg

NextSwitch ==
    \E b \in Blocks, index \in 0..(MaxCases + 1) : Call_get_case(b, index)

SpecSwitch == Init /\ [][NextSwitch]_vars

(***************************************************************************)
(* parsing on a sequence of tokens, at one or two tokens a line.           *)
(***************************************************************************)
InitParser ==
    /\ IdleGraph
    /\ func = AllAttached
    /\ IdlePredicate
    /\ IdleLexer
    /\ IdleModule
    /\ IdleCmp
    /\ IdleElim
    /\ IdleFile
    /\ \E kinds \in TokenSeqs(MaxTokenRuns), per_line \in 1..2 :
          tokens = [i \in 1..Len(kinds) |->
                       TokenInfo(ParserToken(kinds[i]),
                                 1 + ((i - 1) \div per_line),
                                 1 + ((i - 1) % per_line))]
    /\ ret = NoCall

Call_parsing ==
    /\ ret.op = "none"
    /\ ret' = Returned("parsing", NoBlock, FALSE, <<parsing(tokens)>>)
    /\ UNCHANGED tokens
    /\ UNCHANGED frame_parser

NextParser == Call_parsing

SpecParser == InitParser /\ [][NextParser]_vars

(***************************************************************************)
(* nom_lexing and nom_lexing_filtered on the inputs of the lexer.          *)
(***************************************************************************)
Call_nom_lexing ==
    /\ ret.op = "none"
    /\ ret' = Returned("nom_lexing", NoBlock, nom_lexing(span).panic,
                       <<nom_lexing(span).tokens>>)
    /\ UNCHANGED span
    /\ UNCHANGED frame_lexer

Call_nom_lexing_filtered ==
    /\ ret.op = "none"
    /\ ret' = Returned("nom_lexing_filtered", NoBlock,
                       nom_lexing_filtered(span).panic,
                       <<nom_lexing_filtered(span).tokens>>)
    /\ UNCHANGED span
    /\ UNCHANGED frame_lexer

NextLexing == Call_nom_lexing \/ Call_nom_lexing_filtered

SpecLexing == InitLexer /\ [][NextLexing]_vars

Next ==
    \/ \E b \in Blocks : Call_get_successors(b)
    \/ \E b \in Blocks : Call_get_conditioned_successors(b)
    \/ \E b \in Blocks : Call_get_predecessors(b)
    \/ \E b \in Blocks : Call_get_conditioned_predecessors(b)
    \/ \E b \in Blocks : Call_get_condition(b)

Spec == Init /\ [][Next]_vars

TypeOK ==
    /\ term \in [Blocks -> TermSet]
    /\ UsesConsistent
    /\ ret.blk \in Blocks \cup {NoBlock}

(***************************************************************************)
(* Properties                                                              *)
(***************************************************************************)
\* s contains the entry e
Contains(s, e) == \E i \in 1..Len(s) : s[i] = e

\* number of entries of the edge list s whose block is b
RECURSIVE CountBlock(_, _)
CountBlock(s, b) ==
    IF s = <<>> THEN 0
    ELSE (IF Head(s).block = b THEN 1 ELSE 0) + CountBlock(Tail(s), b)

\* C1: structural inverse.  For every edge (cond, target) returned by
\* get_conditioned_successors(A), get_conditioned_predecessors(target)
\* contains an entry with condition cond and block A.
C1_StructuralInverse ==
    ret.op = "get_conditioned_successors" =>
        \A i \in 1..Len(ret.val) :
            Contains(BasicBlock_get_conditioned_predecessors(ret.val[i].block),
                     PredecessorBlock(ret.val[i].condition, ret.blk))

\* a switch returned a default edge and a case edge to two different blocks
C1_Witness ==
    /\ ret.op = "get_conditioned_successors"
    /\ term[ret.blk].kind = "Switch"
    /\ Len(ret.val) = 3
    /\ ret.val[2].block = ret.val[3].block
    /\ ret.val[1].block # ret.val[2].block

\* C2: edge multiplicity is preserved end to end.  For every pair of blocks
\* A and B the number of entries of get_conditioned_predecessors(B) whose
\* block is A equals the number of entries of
\* get_conditioned_successors(A) whose block is B.
C2_EdgeMultiplicity ==
    ret.op = "get_conditioned_predecessors" =>
        \A a \in Blocks :
            CountBlock(ret.val, a)
                = CountBlock(BasicBlock_get_conditioned_successors(a), ret.blk)

\* C3: multiplicity preservation.  If two cases of one switch in block A,
\* with different case values v1 and v2, both target block B, then
\* get_conditioned_predecessors(B) contains an entry (Value(cond, v1), A)
\* and a distinct entry (Value(cond, v2), A).
C3_SwitchCasesBothListed ==
    ret.op = "get_conditioned_predecessors" =>
        \A a \in Blocks :
            term[a].kind = "Switch" =>
                \A i, j \in 1..Len(term[a].cases) :
                    (/\ i # j
                     /\ term[a].succs[i + 1] = ret.blk
                     /\ term[a].succs[j + 1] = ret.blk)
                    => \E m, n \in 1..Len(ret.val) :
                          /\ m # n
                          /\ ret.val[m] = PredecessorBlock(
                                 PathCondition_Value(term[a].cond,
                                                     term[a].cases[i]), a)
                          /\ ret.val[n] = PredecessorBlock(
                                 PathCondition_Value(term[a].cond,
                                                     term[a].cases[j]), a)

\* the predecessors of a block that two cases of one switch target were asked
C3_Witness ==
    /\ ret.op = "get_conditioned_predecessors"
    /\ \E a \in Blocks :
          /\ term[a].kind = "Switch"
          /\ Len(term[a].cases) = 2
          /\ term[a].cases[1] # term[a].cases[2]
          /\ term[a].succs[2] = ret.blk
          /\ term[a].succs[3] = ret.blk
          /\ term[a].succs[1] # ret.blk

ConditionedKinds == {"Br", "Switch", "IndirectBr"}

\* C4: edge-count correspondence.  For a block whose terminator is a br, a
\* switch or an indirectbr, get_conditioned_successors returns as many
\* edges as get_successors returns blocks, which is the number of block
\* operands of the terminator.
C4_EdgeCount ==
    (/\ ret.op = "get_conditioned_successors"
     /\ term[ret.blk].kind \in ConditionedKinds)
    => /\ Len(ret.val) = Len(BasicBlock_get_successors(ret.blk))
       /\ Len(ret.val) = NumBlockOperands(term[ret.blk])

\* the edges of a conditional br were asked
C4_Witness ==
    /\ ret.op = "get_conditioned_successors"
    /\ term[ret.blk].kind = "Br"
    /\ term[ret.blk].cond # NoVal
    /\ Len(ret.val) = 2

\* C5: a switch with condition c, default target d and cases (v_i, t_i)
\* yields (None, d) first and then (Value(c, v_i), t_i) for every case in
\* declaration order, N + 1 edges in all.
C5_SwitchEdges ==
    (/\ ret.op = "get_conditioned_successors"
     /\ term[ret.blk].kind = "Switch")
    => LET t == term[ret.blk]
       IN  ret.val =
               <<SuccessorBlock(PathCondition_None, t.succs[1])>> \o
               [i \in 1..Len(t.cases) |->
                   SuccessorBlock(PathCondition_Value(t.cond, t.cases[i]),
                                  t.succs[i + 1])]

\* the edges of a switch with two cases were asked, the default and the two
\* case targets not all the same block
C5_Witness ==
    /\ ret.op = "get_conditioned_successors"
    /\ term[ret.blk].kind = "Switch"
    /\ Len(term[ret.blk].cases) = 2
    /\ term[ret.blk].succs[1] # term[ret.blk].succs[2]
    /\ Len(ret.val) = 3

\* C6: an unconditional br yields exactly (None, target); a br on c with
\* true target T and false target F yields exactly (Boolean(c, true), T)
\* followed by (Boolean(c, false), F).
C6_BranchEdges ==
    (/\ ret.op = "get_conditioned_successors"
     /\ term[ret.blk].kind = "Br")
    => LET t == term[ret.blk]
       IN  IF t.cond = NoVal
           THEN ret.val = <<SuccessorBlock(PathCondition_None, t.succs[1])>>
           ELSE ret.val =
                   <<SuccessorBlock(PathCondition_Boolean(t.cond, TRUE),
                                    t.succs[1]),
                     SuccessorBlock(PathCondition_Boolean(t.cond, FALSE),
                                    t.succs[2])>>

\* the edges of a conditional br with two different targets were asked
C6_Witness ==
    /\ ret.op = "get_conditioned_successors"
    /\ term[ret.blk].kind = "Br"
    /\ term[ret.blk].cond # NoVal
    /\ term[ret.blk].succs[1] # term[ret.blk].succs[2]
    /\ ret.val[1].condition.arg = 1

\* C7: an indirectbr with destinations d_0 .. d_{N-1} yields exactly
\* (None, d_0), ..., (None, d_{N-1}) in declared order.
C7_IndirectBrEdges ==
    (/\ ret.op = "get_conditioned_successors"
     /\ term[ret.blk].kind = "IndirectBr")
    => LET t == term[ret.blk]
       IN  ret.val = [i \in 1..Len(t.succs) |->
                         SuccessorBlock(PathCondition_None, t.succs[i])]

\* the edges of an indirectbr with two different destinations were asked
C7_Witness ==
    /\ ret.op = "get_conditioned_successors"
    /\ term[ret.blk].kind = "IndirectBr"
    /\ Len(term[ret.blk].succs) = 2
    /\ term[ret.blk].succs[1] # term[ret.blk].succs[2]
    /\ Len(ret.val) = 2

InstructionUsers(b) == SelectSeq(uses[b], LAMBDA user : user # ConstUser)

\* C9: get_predecessors(B) returns, in use-list order, the owning block of
\* every use of B whose user is an instruction and nothing for the other
\* uses; a block whose terminator references B through k operands appears
\* k times.
C9_Predecessors ==
    ret.op = "get_predecessors" =>
        /\ ret.val = InstructionUsers(ret.blk)
        /\ \A a \in Blocks :
              CountIn(ret.val, a) = CountIn(term[a].succs, ret.blk)

\* the predecessors of a block were asked that a block-address constant and
\* two operands of one terminator reference
C9_Witness ==
    /\ ret.op = "get_predecessors"
    /\ \E i \in 1..Len(uses[ret.blk]) : uses[ret.blk][i] = ConstUser
    /\ Len(ret.val) = 2
    /\ ret.val[1] = ret.val[2]

\* every use of b is an operand of an unconditional br
OnlyUnconditionalBranches(b) ==
    \A i \in 1..Len(uses[b]) :
        /\ uses[b][i] # ConstUser
        /\ term[uses[b][i]].kind = "Br"
        /\ term[uses[b][i]].cond = NoVal

\* C10: when B is referenced only by the unconditional branches that end
\* the blocks P_1 .. P_n, get_conditioned_predecessors(B) is exactly the
\* list of the n entries (None, P_i), in the order of the use-list of B.
C10_MergePredecessors ==
    (/\ ret.op = "get_conditioned_predecessors"
     /\ OnlyUnconditionalBranches(ret.blk))
    => ret.val = [i \in 1..Len(uses[ret.blk]) |->
                     PredecessorBlock(PathCondition_None, uses[ret.blk][i])]

\* the predecessors of a block were asked that two unconditional branches
\* reference, the use-list enumerating the later block first
C10_Witness ==
    /\ ret.op = "get_conditioned_predecessors"
    /\ OnlyUnconditionalBranches(ret.blk)
    /\ Len(uses[ret.blk]) = 2
    /\ uses[ret.blk][1] > uses[ret.blk][2]
    /\ Len(ret.val) = 2

\* the path condition of the edge that block operand i (from 0) of the
\* terminator t stands for
EdgeCondition(t, i) ==
    IF t.kind = "Br" /\ t.cond # NoVal
    THEN PathCondition_Boolean(t.cond, i = 0)
    ELSE IF t.kind = "Switch" /\ i > 0
    THEN PathCondition_Value(t.cond, t.cases[i])
    ELSE PathCondition_None

\* C15: get_condition of a branch panics exactly when has_condition is
\* false and returns the condition value otherwise; deriving the
\* conditioned edges of a branch never panics.
C15_GetCondition ==
    /\ ret.op = "get_condition" =>
          /\ ret.panic <=> ~AnyCondition_has_condition(term[ret.blk])
          /\ ~ret.panic => ret.val = <<term[ret.blk].cond>>
    /\ (ret.op = "get_conditioned_successors" /\ term[ret.blk].kind = "Br")
          => ~ret.panic

\* get_condition was called on an unconditional branch
C15_Witness ==
    /\ ret.op = "get_condition"
    /\ term[ret.blk].kind = "Br"
    /\ term[ret.blk].cond = NoVal
    /\ ret.panic

C11_DetachedEmpty ==
    (/\ ret.op \in {"get_successors", "get_conditioned_successors",
                    "get_predecessors", "get_conditioned_predecessors"}
     /\ ~BasicBlock_get_parent(ret.blk))
    => (ret.val = <<>> /\ ~ret.panic)

\* C20: move_before, move_after, remove_from_function and delete return
\* Err and leave the block list as it is when a block involved has no
\* parent, and return Ok otherwise; a block without parent stays without
\* parent, its get_parent, get_previous_basic_block and
\* get_next_basic_block are None, and a block removed with Ok has no parent.
C20_LayoutOps ==
    [][LET orphan(b) == IndexIn(func.list, b) = 0
           involved == {ret'.blk, ret'.arg} \ {NoBlock}
       IN  /\ ret'.op \in {"move_before", "move_after",
                           "remove_from_function", "delete"}
               => IF \E b \in involved : orphan(b)
                  THEN ret'.val = <<"Err">> /\ func' = func
                  ELSE ret'.val = <<"Ok">>
           /\ (ret'.op \in {"remove_from_function", "delete"}
                /\ ret'.val = <<"Ok">>)
               => IndexIn(func'.list, ret'.blk) = 0
           /\ (ret'.op \in {"get_parent", "get_previous_basic_block",
                            "get_next_basic_block"}
                /\ orphan(ret'.blk))
               => ret'.val = <<>>
           /\ \A b \in Blocks : orphan(b) => IndexIn(func'.list, b) = 0
      ]_vars

\* a block was asked to move behind a block that had been removed from the
\* function
C20_Witness ==
    /\ ret.op = "move_after"
    /\ ret.val = <<"Err">>
    /\ BasicBlock_get_parent(ret.blk)
    /\ ~BasicBlock_get_parent(ret.arg)
    /\ ret.arg \notin func.deleted

\* C12: involution.  negate(negate(p)) = p for each of the 10 integer and
\* 16 floating-point predicates, and negate keeps an integer predicate an
\* integer predicate and a floating-point predicate a floating-point one.
C12_Involution ==
    /\ ret.op = "negated_twice" => ret.val = <<pred>>
    /\ ret.op \in {"negated", "negated_twice"} =>
          /\ ret.val[1].family = pred.family
          /\ ret.val[1] \in BinaryPredicates

\* negate was applied twice, starting from unsigned greater-or-equal
C12_Witness ==
    /\ ret.op = "negated_twice"
    /\ pred = IntPred("UGE")
    /\ ret.val = <<IntPred("UGE")>>

\* C13: logical complement.  negate(p) holds of the operands exactly when
\* p does not, NaN operands of floating-point predicates included.
C13_Complement ==
    ret.op = "negated" =>
        (Holds(ret.val[1], opnds[1], opnds[2])
            <=> ~Holds(pred, opnds[1], opnds[2]))

\* an ordered predicate was negated and one operand is NaN
C13_Witness ==
    /\ ret.op = "negated"
    /\ pred = FloatPred("OGT")
    /\ opnds[1] = NaN
    /\ opnds[2] = Num(0)
    /\ Holds(ret.val[1], opnds[1], opnds[2])

\* the pairs of the negation table
IntPairs ==
    {<<"EQ", "NE">>, <<"UGT", "ULE">>, <<"UGE", "ULT">>, <<"SGT", "SLE">>,
     <<"SGE", "SLT">>}

FloatPairs ==
    {<<"OEQ", "UNE">>, <<"OGT", "ULE">>, <<"OGE", "ULT">>, <<"OLT", "UGE">>,
     <<"OLE", "UGT">>, <<"ONE", "UEQ">>, <<"ORD", "UNO">>,
     <<"PredicateFalse", "PredicateTrue">>}

\* C14: negate follows the fixed table EQ<->NE, UGT<->ULE, UGE<->ULT,
\* SGT<->SLE, SGE<->SLT for integers and OEQ<->UNE, OGT<->ULE, OGE<->ULT,
\* OLT<->UGE, OLE<->UGT, ONE<->UEQ, ORD<->UNO, PredicateFalse<->
\* PredicateTrue for floating point.
C14_Table ==
    ret.op = "negated" =>
        LET pairs == IF pred.family = "IntPred" THEN IntPairs ELSE FloatPairs
        IN  /\ ret.val[1].family = pred.family
            /\ \E pr \in pairs :
                  \/ pred.p = pr[1] /\ ret.val[1].p = pr[2]
                  \/ pred.p = pr[2] /\ ret.val[1].p = pr[1]

\* signed greater-than was negated
C14_Witness ==
    /\ ret.op = "negated"
    /\ pred = IntPred("SGT")
    /\ ret.val = <<IntPred("SLE")>>

\* the characters of an identifier after the first
IdentChars == Alpha \cup Digit \cup {"_"}

\* C18: a lexer matcher that succeeds consumes a non-empty prefix and
\* returns the remaining suffix with the token of that prefix.  identifier
\* takes the longest prefix [a-zA-Z_][a-zA-Z0-9_]* as IDENT;
\* match_special_token gives StartComment, EndComment, BugId,
\* IntegerOverflow for a leading "/*", "*/", "bug", "integer_overflow";
\* match_token_single gives MUL for a leading "*".
C18_Matchers ==
    /\ (/\ ret.op \in {"identifier", "escaped_char", "match_special_token",
                       "match_token_single"}
        /\ ret.val[1].status = "Ok")
       => LET r == ret.val[1]
              n == Len(span) - Len(r.rest)
          IN  /\ n >= 1
              /\ r.rest = SubSeq(span, n + 1, Len(span))
              /\ r.token.kind \in {"IDENT", "EscapedChar"}
                    => r.token.text = SubSeq(span, 1, n)
              /\ ret.op = "identifier"
                    => /\ r.token.kind = "IDENT"
                       /\ span[1] \in Alpha \cup {"_"}
                       /\ \A i \in 1..n : span[i] \in IdentChars
                       /\ n < Len(span) => span[n + 1] \notin IdentChars
              /\ ret.op = "escaped_char" => r.token.kind = "EscapedChar"
    /\ (ret.op = "identifier" /\ span # <<>> /\ span[1] \in Alpha \cup {"_"})
       => ret.val[1].status = "Ok"
    /\ ret.op = "match_special_token"
       => \A pair \in {<<<<"/", "*">>, "StartComment">>,
                       <<<<"*", "/">>, "EndComment">>,
                       <<<<"b", "u", "g">>, "BugId">>,
                       <<Str_integer_overflow, "IntegerOverflow">>} :
             (Len(span) >= Len(pair[1])
              /\ SubSeq(span, 1, Len(pair[1])) = pair[1])
             => /\ ret.val[1].status = "Ok"
                /\ ret.val[1].token.kind = pair[2]
                /\ ret.val[1].rest = SubSeq(span, Len(pair[1]) + 1, Len(span))
    /\ (ret.op = "match_token_single" /\ span # <<>> /\ span[1] = "*")
       => /\ ret.val[1].status = "Ok"
          /\ ret.val[1].token.kind = "MUL"
          /\ ret.val[1].rest = Tail(span)

\* identifier took xy3 from the front of "xy3 "
C18_Witness ==
    /\ ret.op = "identifier"
    /\ span = <<"x", "y", "3", " ">>
    /\ ret.val[1].status = "Ok"
    /\ ret.val[1].token.text = <<"x", "y", "3">>
    /\ ret.val[1].rest = <<" ">>

\* C19: on every input that begins with a decimal digit match_decimal
\* succeeds, with a Number token and the input after the characters it
\* consumed; it does not fail on any such input.
C19_DecimalTotal ==
    (ret.op = "match_decimal" /\ span # <<>> /\ span[1] \in Digit)
    => /\ ~ret.panic
       /\ ret.val[1].status = "Ok"
       /\ ret.val[1].token.kind = "Number"
       /\ Len(ret.val[1].rest) < Len(span)
       /\ ret.val[1].rest =
             SubSeq(span, Len(span) - Len(ret.val[1].rest) + 1, Len(span))

\* some global, parameter, block or instruction of the module bears a name
SomethingRenamed(m) ==
    \/ \E i \in 1..Len(m.globals) : m.globals[i] # Unnamed
    \/ \E i \in 1..Len(m.functions) :
          LET f == m.functions[i]
          IN  \/ \E j \in 1..Len(f.params) : f.params[j] # Unnamed
              \/ \E k \in 1..Len(f.blocks) :
                    \/ f.blocks[k].name # Unnamed
                    \/ \E j \in 1..Len(f.blocks[k].insts) :
                          f.blocks[k].insts[j].name # Unnamed

\* C21: rename_basic_blocks_and_values returns true exactly when a renaming
\* was performed, that is when the module has a global or a defined
\* function with a parameter, a block or a non-void instruction.
C21_RenameResult ==
    ret.op = "rename" => (ret.val[1] <=> SomethingRenamed(ir_module))

\* C28: the file at the end of a chain of derive_from_file calls has the
\* file_name and file_type of the first file of the chain as its
\* original_file_name and original_file_type and the entry_point of the
\* first file; its file_name is the name given last and its file_type the
\* type of that name.
C28_OriginKept ==
    ret.op = "derive_from_file" =>
        LET derived == ret.val[1]
            first == file[1]
        IN  /\ derived = file[Len(file)]
            /\ derived.original_file_name = <<first.file_name>>
            /\ derived.original_file_type = <<first.file_type>>
            /\ derived.entry_point = first.entry_point
            /\ derived.file_type = FileType_new(derived.file_name)
            /\ CodeFile_is_originally_from_c_cpp(derived)
                  <=> first.file_type = "CCpp"
            /\ CodeFile_is_originally_from_solidity(derived)
                  <=> first.file_type = "Solidity"

\* a bitcode file derived from an .ll file derived from a C file
C28_Witness ==
    /\ ret.op = "derive_from_file"
    /\ Len(file) = 3
    /\ file[1].file_name = FileName("a", "c")
    /\ file[2].file_name = FileName("a", "ll")
    /\ file[3].file_name = FileName("a", "bc")
    /\ file[3].original_file_type = <<"CCpp">>

\* C22: simplify_module returns true if it changed the module (it removed
\* an unused function, erased a call to an llvm.lifetime function or
\* erased an unused load) and false otherwise.
C22_SimplifyResult ==
    ret.op = "simplify" => (ret.val[1] <=> ir_module # ret.val[2])

\* the instructions a call of eliminate_unused_load is about to erase are
\* loads of the function that have no use
ErasesOnlyUnusedLoads ==
    \A k \in 1..Len(elim.unused_instrs) :
        \E i \in Insts(elim.body) :
            /\ i.id = elim.unused_instrs[k]
            /\ i.opcode = "Load"
            /\ Inst_is_unused(elim.body, i)

\* C27: eliminate_unused_load returns; when it has returned no load without
\* a use is left in the function, also none that lost its last use because
\* another load was erased; it erases nothing but loads that have no use
\* when they are erased; and its result is true exactly when it erased an
\* instruction.
C27_FixPoint ==
    /\ <>(elim.pc = "return")
    /\ [](elim.pc = "return" =>
            /\ unused_instrs_of(elim.body) = {}
            /\ ret.val[1] <=> elim.erased # {}
            /\ Insts(elim.body) =
                  Insts(erase_from_basic_block(elim.at_call, elim.erased)))
    /\ [](elim.pc = "erase" => ErasesOnlyUnusedLoads)

\* a load whose only use was an erased load has been erased in a later
\* round and the call has returned true
C27_Witness ==
    /\ elim.pc = "return"
    /\ ret.val = <<TRUE>>
    /\ Len(elim.at_call) = 3
    /\ elim.at_call[2].opcode = "Load"
    /\ elim.at_call[2].operands = {1}
    /\ elim.at_call[1].opcode = "Load"
    /\ elim.at_call[3].opcode = "Other"
    /\ elim.at_call[3].operands = {}
    /\ elim.erased = {1, 2}

\* C23: get_predicate returns IntPred(p) on an icmp with predicate p and
\* FloatPred(p) on an fcmp with predicate p, and fails only on an
\* instruction that is not a comparison.
C23_GetPredicate ==
    ret.op = "get_predicate" =>
        /\ cmp.opcode = "ICmp" /\ cmp.type = "int" =>
              ~ret.panic /\ ret.val = <<IntPred(cmp.predicate)>>
        /\ cmp.opcode = "FCmp" /\ cmp.type = "int" =>
              ~ret.panic /\ ret.val = <<FloatPred(cmp.predicate)>>
        /\ ret.panic /\ cmp.type = "int" => cmp.opcode = "Other"

\* C24: get_case(index) returns Some of a case value exactly when index is
\* less than get_num_cases() and None for every other index.
C24_GetCaseInRange ==
    ret.op = "get_case" =>
        IF ret.arg < SwitchInst_get_num_cases(term[ret.blk])
        THEN ~ret.panic /\ ret.val = <<term[ret.blk].cases[ret.arg + 1]>>
        ELSE ~ret.panic /\ ret.val = <<>>

\* the token at index s lies in a comment: the nearest StartComment or
\* EndComment before it is a StartComment
InComment(s) ==
    \E c \in 1..(s - 1) :
        /\ tokens[c].token.kind = "StartComment"
        /\ \A k \in (c + 1)..(s - 1) :
              tokens[k].token.kind \notin {"StartComment", "EndComment"}

\* an annotation starts at index s: an IntegerOverflow in a comment, with
\* no annotation open
AnnotationStart(s) ==
    /\ tokens[s].token.kind = "IntegerOverflow"
    /\ InComment(s)
    /\ ~\E p \in 1..(s - 1) :
          /\ tokens[p].token.kind = "IntegerOverflow"
          /\ InComment(p)
          /\ \A k \in (p + 1)..(s - 1) : tokens[k].token.kind # "StartComment"

\* the StartComment tokens after index s
ClosesAfter(s) ==
    {c \in (s + 1)..Len(tokens) : tokens[c].token.kind = "StartComment"}

\* the index of the StartComment that closes the annotation started at s
AnnotationClose(s) ==
    CHOOSE c \in ClosesAfter(s) : \A d \in ClosesAfter(s) : c <= d

\* the tokens the annotation started at s collects
Collected(s) ==
    LET isElement(t) ==
            t.token.kind \notin {"StartComment", "EndComment", "IntegerOverflow"}
    IN  SelectSeq(SubSeq(tokens, s + 1, AnnotationClose(s) - 1), isElement)

\* the annotation started at s yields a triple
YieldsTriple(s) ==
    /\ AnnotationStart(s)
    /\ ClosesAfter(s) # {}
    /\ Len(Collected(s)) = 3

\* C25: parsing returns, in the order of the tokens, one triple
\* (IntegerOverflow, line, column) for exactly the annotations that start
\* at an IntegerOverflow in a comment, are closed by a later StartComment
\* and have collected exactly three tokens in between; line and column are
\* those of the second collected token.
C25_Parsing ==
    ret.op = "parsing" =>
        LET starts == SelectSeq([i \in 1..Len(tokens) |-> i], YieldsTriple)
        IN  ret.val[1] =
              [k \in 1..Len(starts) |->
                  <<"IntegerOverflow",
                    Collected(starts[k])[2].position.line,
                    Collected(starts[k])[2].position.col>>]

\* two annotations have yielded their triples, in the order of the tokens
C25_Witness ==
    /\ ret.op = "parsing"
    /\ [i \in 1..Len(tokens) |-> tokens[i].token.kind] =
          <<"StartComment", "IntegerOverflow", "IDENT", "IDENT", "IDENT",
            "StartComment", "IntegerOverflow", "IDENT", "IDENT", "IDENT",
            "StartComment">>
    /\ tokens[4].position = [line |-> 2, col |-> 2]
    /\ ret.val[1] = <<<<"IntegerOverflow", 2, 2>>, <<"IntegerOverflow", 5, 1>>>>

\* the tokens of nom_lexing on the input, in the order of the input
SourceOrder == Reverse(nom_lexing(span).tokens)

\* token t lies before token u in the input
Before(t, u) ==
    \/ t.position.line < u.position.line
    \/ t.position.line = u.position.line /\ t.position.col < u.position.col

\* the text the tokens of a sequence print as, one after another
RECURSIVE Concatenation(_)
Concatenation(toks) ==
    IF toks = <<>> THEN <<>>
    ELSE token_to_string(Head(toks).token) \o Concatenation(Tail(toks))

\* nom_lexing_filtered has returned the tokens of nom_lexing that are no
\* Whitespace and no EscapedChar, in the order of the input
FilteredInSourceOrder ==
    LET filtered == ret.val[1]
        important(t) == t.token.kind \notin {"Whitespace", "EscapedChar"}
    IN  /\ \A i, j \in 1..Len(filtered) :
              i < j => Before(filtered[i], filtered[j])
        /\ filtered = SelectSeq(SourceOrder, important)

LeadingZero ==
    \E i \in 1..(Len(span) - 1) :
        /\ span[i] = "0"
        /\ span[i + 1] \in Digit
        /\ i = 1 \/ span[i - 1] \notin Digit

RECURSIVE Delimiters(_)
Delimiters(s) ==
    IF s = <<>> THEN <<>>
    ELSE IF StartsWith(s, <<"/", "*">>)
    THEN <<"StartComment">> \o Delimiters(Drop(s, 2))
    ELSE IF StartsWith(s, <<"*", "/">>)
    THEN <<"EndComment">> \o Delimiters(Drop(s, 2))
    ELSE Delimiters(Tail(s))

\* C29: nom_lexing emits one StartComment for every /* and one EndComment
\* for every */ of the input, whatever stands before the delimiter, and no
\* EscapedChar token holds a comment delimiter.
C29_CommentDelimiters ==
    ret.op = "nom_lexing" /\ ~ret.panic =>
        LET toks == Reverse(ret.val[1])
            isComment(t) == t.token.kind \in {"StartComment", "EndComment"}
            comments == SelectSeq(toks, isComment)
        IN  /\ [i \in 1..Len(comments) |-> comments[i].token.kind]
                  = Delimiters(span)
            /\ \A i \in 1..Len(toks) :
                  toks[i].token.kind = "EscapedChar" =>
                      Delimiters(toks[i].token.text) = <<>>

====
